---- MODULE Spec2Model ----
(***************************************************************************)
(* The Scooby-Doo IMDB tutorial: three notebooks (data ingest, feature     *)
(* transformations, modeling) run against one warehouse schema, one stage  *)
(* (@SCOOBY_ASSETS) and one local directory, plus the server processes     *)
(* that run the deployed function batch_predict_imdb.                      *)
(*                                                                         *)
(* A text is a sequence of one-character strings.  A SQL value is either   *)
(* Null (<<>>) or Some(x) (<<x>>).  A dataframe is a sequence of rows, a   *)
(* row a record of SQL values.                                             *)
(***************************************************************************)
EXTENDS Integers, Sequences, FiniteSets, TLC

VARIABLES
    csvFile,        \* rows of ../data/scoobydoo_20211019.csv (raw text)
    cv_mape,        \* what cross-validation measures: candidate -> mean MAPE
    localFiles,     \* local directory: file name -> content
    stage,          \* @SCOOBY_ASSETS: file name -> content
    tables,         \* warehouse tables: name -> rows
    functions,      \* warehouse functions (a set of registrations)
    registrations,  \* registrations of batch_predict_imdb made so far
    nb,             \* the notebook whose kernel is running ("none": no kernel)
    pc,             \* the next cell of that notebook
    runs,           \* notebooks started so far; the running session's number
    errors,         \* cells of the running kernel that raised
    defined,        \* kernel variables that hold a usable value
    df_read,        \* the dataframe as the ingest notebook read it
    scooby_df,      \* kernel variable scooby_df
    scooby_ml_df,   \* kernel variable scooby_ml_df
    scooby_train_df,\* kernel variable scooby_train_df
    scooby_test_df, \* kernel variable scooby_test_df
    preprocessing_pipeline, \* kernel variable preprocessing_pipeline
    train_df,       \* kernel variable train_df
    test_df,        \* kernel variable test_df
    pipeline_calls, \* fit/transform calls the running kernel made on the pipeline
    CAT_COLS,       \* kernel variable CAT_COLS
    NUM_COLS,       \* kernel variable NUM_COLS
    grid_search,    \* kernel variable grid_search (the fitted search)
    feature_cols,   \* kernel variable feature_cols
    test_df_w_preds,\* kernel variable test_df_w_preds
    query,          \* the running query that calls batch_predict_imdb
    procs,          \* server processes of the function
    last_call       \* the latest call of batch_predict_imdb

vars == <<csvFile, cv_mape, localFiles, stage, tables, functions, registrations, nb, pc,
          runs, errors, defined, df_read, scooby_df, scooby_ml_df,
          scooby_train_df, scooby_test_df, preprocessing_pipeline, train_df,
          test_df, pipeline_calls, CAT_COLS, NUM_COLS, grid_search,
          feature_cols, test_df_w_preds, query, procs, last_call>>

----------------------------------------------------------------------------
(* Bounds of the model.                                                    *)

\* Longest text drawn exhaustively for one cell of the ingest dataframe.
MaxLen == 3

\* Most rows of the CSV file.
MaxRows == 2

\* Most notebooks opened, one after the other.
MaxRuns == 3

\* Most registrations of batch_predict_imdb.
MaxRegistrations == 2

\* Most rows of the table when the scoring function is studied on its own.
MaxTableRows == 4

\* Most processes that serve one query.
MaxProcs == 2

\* Greatest mean MAPE of a candidate of the grid search, in whole units.
MaxMape == 2

----------------------------------------------------------------------------
(* Texts.                                                                  *)

Null == <<>>
Some(x) == <<x>>

LowerCase == <<"a","b","c","d","e","f","g","h","i","j","k","l","m",
               "n","o","p","q","r","s","t","u","v","w","x","y","z">>
UpperCase == <<"A","B","C","D","E","F","G","H","I","J","K","L","M",
               "N","O","P","Q","R","S","T","U","V","W","X","Y","Z">>
Digits == <<"0","1","2","3","4","5","6","7","8","9">>

Range(s) == {s[i] : i \in 1..Len(s)}

IndexOf(s, c) == CHOOSE i \in 1..Len(s) : s[i] = c

\* The characters in increasing code order: space and punctuation, digits,
\* upper case, underscore, lower case, vertical bar.
CodeOrder == <<" ", "-", ",", ".">> \o Digits \o UpperCase \o <<"_">> \o LowerCase \o <<"|">>

CharCode(c) == IndexOf(CodeOrder, c)

\* The character classes of the two patterns: [a-zA-Z0-9] and [a-zA-Z0-9|,].
AlnumClass == Range(LowerCase) \cup Range(UpperCase) \cup Range(Digits)
AlnumPipeCommaClass == AlnumClass \cup {"|", ","}

UpperChar(c) == IF c \in Range(LowerCase) THEN UpperCase[IndexOf(LowerCase, c)] ELSE c

UpperText(t) == [i \in 1..Len(t) |-> UpperChar(t[i])]

\* Every maximal run of characters outside class replaced by repl.
RECURSIVE ReplaceRuns(_, _, _, _)
ReplaceRuns(t, class, repl, inRun) ==
    IF t = <<>> THEN <<>>
    ELSE IF Head(t) \in class
         THEN <<Head(t)>> \o ReplaceRuns(Tail(t), class, repl, FALSE)
         ELSE IF inRun
              THEN ReplaceRuns(Tail(t), class, repl, TRUE)
              ELSE repl \o ReplaceRuns(Tail(t), class, repl, TRUE)

RECURSIVE RTrimText(_, _)
RTrimText(t, chars) ==
    IF t # <<>> /\ t[Len(t)] \in chars
    THEN RTrimText(SubSeq(t, 1, Len(t) - 1), chars)
    ELSE t

\* The tokens of t between delimiters; empty tokens are skipped.
RECURSIVE Tokens(_, _, _)
Tokens(t, delim, cur) ==
    IF t = <<>> THEN (IF cur = <<>> THEN <<>> ELSE <<cur>>)
    ELSE IF Head(t) = delim
         THEN (IF cur = <<>> THEN <<>> ELSE <<cur>>) \o Tokens(Tail(t), delim, <<>>)
         ELSE Tokens(Tail(t), delim, Append(cur, Head(t)))

RECURSIVE TextLess(_, _)
TextLess(a, b) ==
    IF b = <<>> THEN FALSE
    ELSE IF a = <<>> THEN TRUE
    ELSE IF Head(a) = Head(b) THEN TextLess(Tail(a), Tail(b))
    ELSE CharCode(Head(a)) < CharCode(Head(b))

RECURSIVE Distinct(_)
Distinct(arr) ==
    IF arr = <<>> THEN <<>>
    ELSE LET rest == Distinct(SubSeq(arr, 1, Len(arr) - 1))
             last == arr[Len(arr)]
         IN IF last \in Range(rest) THEN rest ELSE Append(rest, last)

RECURSIVE InsertSorted(_, _)
InsertSorted(arr, x) ==
    IF arr = <<>> THEN <<x>>
    ELSE IF TextLess(x, Head(arr)) THEN <<x>> \o arr
    ELSE <<Head(arr)>> \o InsertSorted(Tail(arr), x)

RECURSIVE Sorted(_)
Sorted(arr) ==
    IF arr = <<>> THEN <<>>
    ELSE InsertSorted(Sorted(Tail(arr)), Head(arr))

RECURSIVE Join(_, _)
Join(arr, sep) ==
    IF arr = <<>> THEN <<>>
    ELSE IF Len(arr) = 1 THEN arr[1]
    ELSE arr[1] \o sep \o Join(Tail(arr), sep)

----------------------------------------------------------------------------
(* The column functions of snowflake.snowpark.functions the notebooks use, *)
(* on SQL values: each returns Null for a Null argument.                   *)

upper(v) == IF v = Null THEN Null ELSE Some(UpperText(v[1]))

regexp_replace(v, class, repl) ==
    IF v = Null THEN Null ELSE Some(ReplaceRuns(v[1], class, repl, FALSE))

rtrim(v, chars) == IF v = Null THEN Null ELSE Some(RTrimText(v[1], chars))

strtok_to_array(v, delim) == IF v = Null THEN Null ELSE Some(Tokens(v[1], delim, <<>>))

array_distinct(v) == IF v = Null THEN Null ELSE Some(Distinct(v[1]))

array_sort(v) == IF v = Null THEN Null ELSE Some(Sorted(v[1]))

array_to_string(v, sep) == IF v = Null THEN Null ELSE Some(Join(v[1], sep))

\* iff takes its second branch when the condition is FALSE or NULL.
iff(cond, a, b) == IF cond = Some(TRUE) THEN a ELSE b

GreaterThan(v, n) == IF v = Null THEN Null ELSE Some(v[1] > n)

NotEqual(v, t) == IF v = Null THEN Null ELSE Some(v[1] # t)

is_null(v) == v = Null

----------------------------------------------------------------------------
(* try_cast: the value of a text that converts to the type, else NULL.     *)

NULLTEXT == <<"N","U","L","L">>

AllIn(t, chars) == \A i \in 1..Len(t) : t[i] \in chars

RECURSIVE DigitsValue(_)
DigitsValue(ds) ==
    IF ds = <<>> THEN 0
    ELSE DigitsValue(SubSeq(ds, 1, Len(ds) - 1)) * 10 + (IndexOf(Digits, ds[Len(ds)]) - 1)

Unsigned(t) == IF t # <<>> /\ Head(t) = "-" THEN Tail(t) ELSE t

Sign(t) == IF t # <<>> /\ Head(t) = "-" THEN -1 ELSE 1

\* An integer text: an optional minus sign and one or more digits.
IsIntegerText(t) == Unsigned(t) # <<>> /\ AllIn(Unsigned(t), Range(Digits))

DotAt(t) == IF "." \in Range(t) THEN IndexOf(t, ".") ELSE Len(t) + 1

IntPart(t) == SubSeq(Unsigned(t), 1, DotAt(Unsigned(t)) - 1)

FracPart(t) == SubSeq(Unsigned(t), DotAt(Unsigned(t)) + 1, Len(Unsigned(t)))

\* A float text: an optional minus sign, digits, at most one decimal point,
\* and at least one digit.
IsFloatText(t) ==
    /\ AllIn(IntPart(t), Range(Digits))
    /\ AllIn(FracPart(t), Range(Digits))
    /\ IntPart(t) \o FracPart(t) # <<>>

\* The float as mantissa and number of decimals, trailing zeros dropped.
FloatValue(t) ==
    LET frac == RTrimText(FracPart(t), {"0"})
    IN [m |-> Sign(t) * DigitsValue(IntPart(t) \o frac), e |-> Len(frac)]

TrueTexts == {<<"T","R","U","E">>, <<"T">>, <<"Y","E","S">>, <<"Y">>, <<"O","N">>, <<"1">>}
FalseTexts == {<<"F","A","L","S","E">>, <<"F">>, <<"N","O">>, <<"N">>, <<"O","F","F">>, <<"0">>}

IsBooleanText(t) == UpperText(t) \in TrueTexts \cup FalseTexts

Convertible(t, type) ==
    CASE type = "IntegerType" -> IsIntegerText(t)
      [] type = "FloatType" -> IsFloatText(t)
      [] type = "BooleanType" -> IsBooleanText(t)

Converted(t, type) ==
    CASE type = "IntegerType" -> Sign(t) * DigitsValue(Unsigned(t))
      [] type = "FloatType" -> FloatValue(t)
      [] type = "BooleanType" -> UpperText(t) \in TrueTexts

\* try_cast filling an invalid value with the type's zero instead of NULL.
try_cast_default(v, type) ==
    IF v = Null THEN Null
    ELSE IF Convertible(v[1], type) THEN Some(Converted(v[1], type))
    ELSE Some(Converted(<<"0">>, type))

try_cast(v, type) ==
    IF v = Null THEN Null
    ELSE IF Convertible(v[1], type) THEN Some(Converted(v[1], type))
    ELSE Null

----------------------------------------------------------------------------
(* Dataframes of the ingest notebook.  One column stands for each group of *)
(* columns a loop of the notebook treats alike.                            *)

int_array == <<"ENGAGEMENT", "MONSTER_AMOUNT", "CULPRIT_AMOUNT">>
float_array == <<"IMDB">>
boolean_array == <<"MONSTER_REAL">>
unique_cat_array == <<"FORMAT">>
monster_cat_array == <<"MONSTER_TYPE">>
culprit_cat_array == <<"CULPRIT_GENDER">>

cat_array == unique_cat_array \o monster_cat_array \o culprit_cat_array

Columns == Range(int_array) \cup Range(float_array) \cup Range(boolean_array)
           \cup Range(cat_array)

\* with_column: the column replaced, row by row, by the expression's value.
with_column(df, col, expr(_)) ==
    [i \in 1..Len(df) |-> [df[i] EXCEPT ![col] = expr(df[i])]]

\* for col in cols: df = df.with_column(col, F.try_cast(col, type))
RECURSIVE CastColumns(_, _, _)
CastColumns(df, cols, type) ==
    IF cols = <<>> THEN df
    ELSE CastColumns(with_column(df, Head(cols), LAMBDA r : try_cast(r[Head(cols)], type)),
                     Tail(cols), type)

\* fix_values with the pattern [^a-zA-Z0-9] (no +): one underscore per character.
fix_values_each(r, column) ==
    IF r[column] = Null THEN Null
    ELSE Some([i \in 1..Len(r[column][1]) |->
                 IF r[column][1][i] \in AlnumClass THEN UpperChar(r[column][1][i]) ELSE "_"])

fix_values(r, column) == upper(regexp_replace(r[column], AlnumClass, <<"_">>))

\* The cleaning with '_' as the replacement instead of the empty text.
clean_value_underscore(r, column) ==
    regexp_replace(rtrim(upper(r[column]), {","}), AlnumPipeCommaClass, <<"_">>)

\* The cleaning of one value: upper case, right trim of commas, then every
\* character outside [a-zA-Z0-9|,] deleted.
clean_value(r, column) ==
    regexp_replace(rtrim(upper(r[column]), {","}), AlnumPipeCommaClass, <<>>)

\* unique_array without array_sort.
unique_array_unsorted(r, column) ==
    LET ar == array_to_string(
                  array_distinct(strtok_to_array(clean_value(r, column), ",")),
                  <<",">>)
    IN iff(NotEqual(r[column], NULLTEXT), ar, Null)

unique_array(r, column) ==
    LET ar == array_to_string(
                  array_sort(array_distinct(strtok_to_array(clean_value(r, column), ","))),
                  <<",">>)
    IN iff(NotEqual(r[column], NULLTEXT), ar, Null)

multi_value(r, column, amount) ==
    iff(GreaterThan(r[amount], 1), unique_array(r, column), clean_value(r, column))

RECURSIVE FixColumns(_, _)
FixColumns(df, cols) ==
    IF cols = <<>> THEN df
    ELSE FixColumns(with_column(df, Head(cols), LAMBDA r : fix_values(r, Head(cols))),
                    Tail(cols))

RECURSIVE MultiValueColumns(_, _, _)
MultiValueColumns(df, cols, amount) ==
    IF cols = <<>> THEN df
    ELSE MultiValueColumns(
             with_column(df, Head(cols), LAMBDA r : multi_value(r, Head(cols), amount)),
             Tail(cols), amount)

----------------------------------------------------------------------------
(* The world the notebooks share, and the kernel of the running notebook.  *)

CSV_FILE == "scoobydoo_20211019.csv"
LocalNames == {"creds.json", "preprocessing_pipeline.joblib", "model.joblib"}
StageNames == {CSV_FILE, "preprocessing_pipeline.joblib.gz", "model.joblib.gz",
               "batch_predict_imdb/udf_py.zip"}
TableNames == {"scooby_clean", "scooby_w_predictions"}

world == <<csvFile, cv_mape, localFiles, stage, tables, functions, registrations>>
frames == <<scooby_ml_df, scooby_train_df, scooby_test_df, preprocessing_pipeline,
            train_df, test_df, pipeline_calls, CAT_COLS, NUM_COLS, grid_search,
            feature_cols, test_df_w_preds>>
server == <<query, procs, last_call>>

\* A transformed dataframe without columns or rows.
EmptyFrame == [columns |-> <<>>, rows |-> <<>>]

\* A kernel that has just started: no variable holds anything yet.
FreshKernel ==
    /\ errors' = {}
    /\ defined' = {}
    /\ CAT_COLS' = <<>>
    /\ NUM_COLS' = <<>>
    /\ df_read' = <<>>
    /\ scooby_df' = <<>>
    /\ scooby_ml_df' = <<>>
    /\ scooby_train_df' = <<>>
    /\ scooby_test_df' = <<>>
    /\ preprocessing_pipeline' = Null
    /\ train_df' = EmptyFrame
    /\ test_df' = EmptyFrame
    /\ pipeline_calls' = <<>>
    /\ grid_search' = Null
    /\ feature_cols' = <<>>
    /\ test_df_w_preds' = EmptyFrame

At(notebook, cell) == nb = notebook /\ pc = cell

Goto(cell) == pc' = cell /\ UNCHANGED <<nb, runs>>

----------------------------------------------------------------------------
(* The data ingest notebook, cell by cell.  A cell whose input is missing  *)
(* raises and changes nothing; the next cell is run all the same.          *)

Raise(cell) == errors' = errors \cup {cell}

\* The first cells without the one that writes creds.json.
IngestSaveCreds_unsaved ==
    /\ At("ingest", "save_creds")
    /\ defined' = defined \cup {"session"}
    /\ Goto("put")
    /\ UNCHANGED <<csvFile, cv_mape, localFiles, stage, tables, functions, registrations,
                   errors, df_read, scooby_df, frames, server>>

\* The first cells: the connection parameters are typed in, a session is
\* created from them, and they are written to creds.json.
IngestSaveCreds ==
    /\ At("ingest", "save_creds")
    /\ localFiles' = [localFiles EXCEPT !["creds.json"] = Some("connection_parameters")]
    /\ defined' = defined \cup {"session"}
    /\ Goto("put")
    /\ UNCHANGED <<csvFile, cv_mape, stage, tables, functions, registrations, errors,
                   df_read, scooby_df, frames, server>>

\* session.file.put(csv, stage, auto_compress=False): a file already on the
\* stage under that name is kept.
IngestPut ==
    /\ At("ingest", "put")
    /\ stage' = IF stage[CSV_FILE] = Null
                THEN [stage EXCEPT ![CSV_FILE] = Some(csvFile)]
                ELSE stage
    /\ Goto("read")
    /\ UNCHANGED <<csvFile, cv_mape, localFiles, tables, functions, registrations, errors,
                   defined, df_read, scooby_df, frames, server>>

\* What a file of the stage that is no CSV file reads as: one row of text
\* that is no data.
JunkRow == [c \in Columns |-> Some(<<"|">>)]

OtherFiles == {n \in StageNames \ {CSV_FILE} : stage[n] # Null}

\* The rows of every file under @SCOOBY_ASSETS.
StageRows ==
    (IF stage[CSV_FILE] = Null THEN <<>> ELSE stage[CSV_FILE][1])
    \o [i \in 1..Cardinality(OtherFiles) |-> JunkRow]

\* session.read.options(...).schema(scooby_schema).csv("@SCOOBY_ASSETS"): the
\* files that are no CSV either read as rows or fail the read.
IngestRead ==
    /\ At("ingest", "read")
    /\ \E parsed \in (IF OtherFiles = {} THEN {TRUE} ELSE BOOLEAN) :
          IF parsed
          THEN /\ scooby_df' = StageRows
               /\ df_read' = StageRows
               /\ defined' = defined \cup {"scooby_df"}
               /\ UNCHANGED errors
          ELSE /\ Raise("read")
               /\ UNCHANGED <<scooby_df, df_read, defined>>
    /\ Goto("cast")
    /\ UNCHANGED <<world, frames, server>>

\* The three try_cast loops.
cast_types(df) ==
    CastColumns(CastColumns(CastColumns(df, int_array, "IntegerType"),
                            float_array, "FloatType"),
                boolean_array, "BooleanType")

\* A cell that replaces scooby_df by a function of it.
Reassign(cell, next, f(_)) ==
    /\ IF "scooby_df" \in defined
       THEN scooby_df' = f(scooby_df) /\ UNCHANGED errors
       ELSE Raise(cell) /\ UNCHANGED scooby_df
    /\ Goto(next)
    /\ UNCHANGED <<world, defined, df_read, frames, server>>

IngestCast ==
    /\ At("ingest", "cast")
    /\ Reassign("cast", "fix_unique", cast_types)

\* for col in unique_cat_array: with_column(col, fix_values(col))
fix_unique_values(df) == FixColumns(df, unique_cat_array)

IngestFixUnique ==
    /\ At("ingest", "fix_unique")
    /\ Reassign("fix_unique", "multi_value", fix_unique_values)

\* The first two loops of the cell: the monster columns, then the culprit's.
clean_multi_values(df) ==
    MultiValueColumns(MultiValueColumns(df, monster_cat_array, "MONSTER_AMOUNT"),
                      culprit_cat_array, "CULPRIT_AMOUNT")

IngestMultiValue ==
    /\ At("ingest", "multi_value")
    /\ Reassign("multi_value", "fix_multi", clean_multi_values)

\* The last two loops of the cell: fix_values on the same columns.
fix_multi_values(df) == FixColumns(FixColumns(df, monster_cat_array), culprit_cat_array)

IngestFixMulti ==
    /\ At("ingest", "fix_multi")
    /\ Reassign("fix_multi", "write", fix_multi_values)

\* write.mode('ignore'): a table that exists already is left as it is.
save_as_table_ignore(old, df) == IF old = Null THEN Some(df) ELSE old

\* write.mode('overwrite').save_as_table(name): the table is created, or
\* replaced if it exists; old is the table's value before the write.
save_as_table(old, df) == Some(df)

\* scooby_df.write.mode('overwrite').save_as_table('scooby_clean')
IngestWrite ==
    /\ At("ingest", "write")
    /\ IF "scooby_df" \in defined
       THEN /\ tables' = [tables EXCEPT !["scooby_clean"] = save_as_table(@, scooby_df)]
            /\ UNCHANGED errors
       ELSE Raise("write") /\ UNCHANGED tables
    /\ Goto("close")
    /\ UNCHANGED <<csvFile, cv_mape, localFiles, stage, functions, registrations,
                   defined, df_read, scooby_df, frames, server>>

\* session.close(): the session's temporary functions go with it.
CloseSession ==
    /\ nb # "none"
    /\ pc = "close"
    /\ functions' = {f \in functions : f.permanent \/ f.session # runs}
    /\ nb' = "none"
    /\ pc' = "none"
    /\ UNCHANGED <<csvFile, cv_mape, localFiles, stage, tables, registrations, runs, errors,
                   defined, df_read, scooby_df, frames, server>>

----------------------------------------------------------------------------
(* The preprocessing pipeline: a one-hot encoder over the categorical      *)
(* columns, then a min-max scaler (clip=True) over the numerical ones.  A  *)
(* transformed dataframe is its column names and its rows, by position.    *)

CATEGORICAL_COLUMNS == <<"FORMAT", "CULPRIT_GENDER">>
NUMERICAL_COLUMNS == <<"ENGAGEMENT">>
LABEL_COLUMNS == <<"IMDB">>

ColumnText(col) ==
    CASE col = "IMDB" -> <<"I","M","D","B">>
      [] col = "FORMAT" -> <<"F","O","R","M","A","T">>
      [] col = "CULPRIT_GENDER" -> <<"C","U","L","P","R","I","T","_","G","E","N","D","E","R">>
      [] col = "ENGAGEMENT" -> <<"E","N","G","A","G","E","M","E","N","T">>

OHE_TEXT == <<"_","O","H","E">>
NORM_TEXT == <<"_","N","O","R","M">>
NONE_TEXT == <<"N","o","n","e">>

\* CATEGORICAL_COLUMNS_OE and NUMERICAL_COLUMNS_NORM: the output names.
OutputName(col) ==
    IF col \in Range(CATEGORICAL_COLUMNS) THEN ColumnText(col) \o OHE_TEXT
    ELSE ColumnText(col) \o NORM_TEXT

\* The four lists as the transformations notebook writes them.
TransformationsLists ==
    [CATEGORICAL_COLUMNS |-> <<"FORMAT", "NETWORK", "SETTING_TERRAIN", "MOTIVE",
                               "MONSTER_GENDER", "CULPRIT_GENDER">>,
     CATEGORICAL_COLUMNS_OE |-> <<"FORMAT_OHE", "NETWORK_OHE", "SETTING_TERRAIN_OHE",
                                  "MOTIVE_OHE", "MONSTER_GENDER_OHE", "CULPRIT_GENDER_OHE">>,
     NUMERICAL_COLUMNS |-> <<"ENGAGEMENT", "RUN_TIME", "ZOINKS", "GROOVY",
                             "SCOOBY_DOO_WHERE_ARE_YOU", "ROOBY_ROOBY_ROO">>,
     NUMERICAL_COLUMNS_NORM |-> <<"ENGAGEMENT_NORM", "RUN_TIME_NORM", "ZOINKS_NORM",
                                  "GROOVY_NORM", "SCOOBY_DOO_WHERE_ARE_YOU_NORM",
                                  "ROOBY_ROOBY_ROO_NORM">>]

\* The four lists as the modeling notebook writes them.
ModelingLists ==
    [CATEGORICAL_COLUMNS |-> <<"FORMAT", "NETWORK", "SETTING_TERRAIN", "MOTIVE",
                               "MONSTER_GENDER", "CULPRIT_GENDER">>,
     CATEGORICAL_COLUMNS_OE |-> <<"FORMAT_OHE", "NETWORK_OHE", "SETTING_TERRAIN_OHE",
                                  "MOTIVE_OHE", "MONSTER_GENDER_OHE", "CULPRIT_GENDER_OHE">>,
     NUMERICAL_COLUMNS |-> <<"ENGAGEMENT", "RUN_TIME", "ZOINKS", "GROOVY",
                             "SCOOBY_DOO_WHERE_ARE_YOU", "ROOBY_ROOBY_ROO">>,
     NUMERICAL_COLUMNS_NORM |-> <<"ENGAGEMENT_NORM", "RUN_TIME_NORM", "ZOINKS_NORM",
                                  "GROOVY_NORM", "SCOOBY_DOO_WHERE_ARE_YOU_NORM",
                                  "ROOBY_ROOBY_ROO_NORM">>]

\* The columns of a list that the rows of this model have.
Modelled(cols) == SelectSeq(cols, LAMBDA c : c \in Columns)

\* The pipeline with the scaler as its first step and without clip.
Pipeline_scaler_first(lists) ==
    [steps |-> <<[name |-> "MMS", input_cols |-> Modelled(lists.NUMERICAL_COLUMNS),
                  output_cols |-> [i \in 1..Len(Modelled(lists.NUMERICAL_COLUMNS)) |->
                                      OutputName(Modelled(lists.NUMERICAL_COLUMNS)[i])],
                  clip |-> FALSE],
                 [name |-> "OHE", input_cols |-> Modelled(lists.CATEGORICAL_COLUMNS),
                  output_cols |-> [i \in 1..Len(Modelled(lists.CATEGORICAL_COLUMNS)) |->
                                      OutputName(Modelled(lists.CATEGORICAL_COLUMNS)[i])],
                  clip |-> FALSE]>>,
     fitted |-> Null]

\* Pipeline(steps=[("OHE", OneHotEncoder(input_cols, output_cols)),
\*                 ("MMS", MinMaxScaler(clip=True, input_cols, output_cols))])
Pipeline(lists) ==
    [steps |-> <<[name |-> "OHE", input_cols |-> Modelled(lists.CATEGORICAL_COLUMNS),
                  output_cols |-> [i \in 1..Len(Modelled(lists.CATEGORICAL_COLUMNS)) |->
                                      OutputName(Modelled(lists.CATEGORICAL_COLUMNS)[i])],
                  clip |-> FALSE],
                 [name |-> "MMS", input_cols |-> Modelled(lists.NUMERICAL_COLUMNS),
                  output_cols |-> [i \in 1..Len(Modelled(lists.NUMERICAL_COLUMNS)) |->
                                      OutputName(Modelled(lists.NUMERICAL_COLUMNS)[i])],
                  clip |-> TRUE]>>,
     fitted |-> Null]

\* The pipeline the transformations notebook builds.
NewPipeline == Pipeline(TransformationsLists)

select(df, cols) == [i \in 1..Len(df) |-> [c \in Range(cols) |-> df[i][c]]]

\* The texts of a set in ascending order.
RECURSIVE Ordered(_)
Ordered(S) ==
    IF S = {} THEN <<>>
    ELSE LET m == CHOOSE x \in S : \A y \in S : ~TextLess(y, x)
         IN <<m>> \o Ordered(S \ {m})

\* The categories the encoder learns for a column: the values in ascending
\* order, the missing value last.
Categories(df, col) ==
    LET seen == {df[i][col] : i \in 1..Len(df)}
        texts == {v[1] : v \in seen \ {Null}}
    IN [i \in 1..Cardinality(texts) |-> Some(Ordered(texts)[i])]
       \o (IF Null \in seen THEN <<Null>> ELSE <<>>)

Present(df, col) == {df[i][col][1] : i \in {k \in 1..Len(df) : df[k][col] # Null}}

Least(S) == IF S = {} THEN Null ELSE Some(CHOOSE x \in S : \A y \in S : x <= y)

Greatest(S) == IF S = {} THEN Null ELSE Some(CHOOSE x \in S : \A y \in S : x >= y)

\* What fit learns from a dataframe.
Learned(df) ==
    [categories |-> [c \in Range(CATEGORICAL_COLUMNS) |-> Categories(df, c)],
     data_min |-> [c \in Range(NUMERICAL_COLUMNS) |-> Least(Present(df, c))],
     data_max |-> [c \in Range(NUMERICAL_COLUMNS) |-> Greatest(Present(df, c))]]

\* fit raises on a dataframe without rows.
CanFit(df) == Len(df) > 0

fit(pipeline, df) == [pipeline EXCEPT !.fitted = Some(Learned(df))]

\* The name of the encoder's column for one category.
CategoryName(col, cat) ==
    OutputName(col) \o <<"_">> \o (IF cat = Null THEN NONE_TEXT ELSE cat[1])

RECURSIVE Flatten(_)
Flatten(ss) == IF ss = <<>> THEN <<>> ELSE Head(ss) \o Flatten(Tail(ss))

InputOrder == LABEL_COLUMNS \o CATEGORICAL_COLUMNS \o NUMERICAL_COLUMNS

TransformedColumns(learned) ==
    [i \in 1..Len(InputOrder) |-> ColumnText(InputOrder[i])]
    \o Flatten([i \in 1..Len(CATEGORICAL_COLUMNS) |->
                  [j \in 1..Len(learned.categories[CATEGORICAL_COLUMNS[i]]) |->
                      CategoryName(CATEGORICAL_COLUMNS[i],
                                   learned.categories[CATEGORICAL_COLUMNS[i]][j])]])
    \o [i \in 1..Len(NUMERICAL_COLUMNS) |-> OutputName(NUMERICAL_COLUMNS[i])]

\* (x - min) / (max - min) as numerator and denominator, clipped to [0, 1].
Scaled(v, lo, hi) ==
    IF v = Null \/ lo = Null THEN Null
    ELSE IF hi[1] = lo[1] THEN Some([num |-> 0, den |-> 1])
    ELSE LET x == IF v[1] < lo[1] THEN lo[1] ELSE IF v[1] > hi[1] THEN hi[1] ELSE v[1]
         IN Some([num |-> x - lo[1], den |-> hi[1] - lo[1]])

TransformedRow(learned, r) ==
    [i \in 1..Len(InputOrder) |-> r[InputOrder[i]]]
    \o Flatten([i \in 1..Len(CATEGORICAL_COLUMNS) |->
                  [j \in 1..Len(learned.categories[CATEGORICAL_COLUMNS[i]]) |->
                      IF r[CATEGORICAL_COLUMNS[i]] = learned.categories[CATEGORICAL_COLUMNS[i]][j]
                      THEN Some(1) ELSE Some(0)]])
    \o [i \in 1..Len(NUMERICAL_COLUMNS) |->
           Scaled(r[NUMERICAL_COLUMNS[i]], learned.data_min[NUMERICAL_COLUMNS[i]],
                  learned.data_max[NUMERICAL_COLUMNS[i]])]

\* transform raises when the pipeline is not fitted, and (handle_unknown =
\* 'error') on a category the encoder has not learned.
CanTransform(pipeline, df) ==
    /\ pipeline.fitted # Null
    /\ \A i \in 1..Len(df) : \A c \in Range(CATEGORICAL_COLUMNS) :
          df[i][c] \in Range(pipeline.fitted[1].categories[c])

transform(pipeline, df) ==
    [columns |-> TransformedColumns(pipeline.fitted[1]),
     rows |-> [i \in 1..Len(df) |-> TransformedRow(pipeline.fitted[1], df[i])]]

\* The cell without the filter.
filter_imdb_all(df) == df

\* scooby_df.filter(F.not_(F.is_null(F.col("IMDB"))))
filter_imdb(df) == SelectSeq(df, LAMBDA r : ~is_null(r["IMDB"]))

----------------------------------------------------------------------------
(* Frames, the split, the two pipeline lines and the regressor.            *)

Contains(t, part) ==
    \E i \in 0..(Len(t) - Len(part)) : SubSeq(t, i + 1, i + Len(part)) = part

ColumnIndex(columns, name) == CHOOSE i \in 1..Len(columns) : columns[i] = name

HasColumns(frame, names) == \A j \in 1..Len(names) : names[j] \in Range(frame.columns)

\* frame[names]: the named columns, row by row.
Project(frame, names) ==
    [i \in 1..Len(frame.rows) |->
        [j \in 1..Len(names) |-> frame.rows[i][ColumnIndex(frame.columns, names[j])]]]

\* The comprehension without its second condition.
ColumnsWith_all(columns, part) == SelectSeq(columns, LAMBDA k : Contains(k, part))

\* [k for k in columns if (part in k) & ('None' not in k)]
ColumnsWith(columns, part) ==
    SelectSeq(columns, LAMBDA k : Contains(k, part) /\ ~Contains(k, NONE_TEXT))

\* One side of random_split: the rows the split sent there, in order.
RECURSIVE Part(_, _, _)
Part(df, mask, side) ==
    IF df = <<>> THEN <<>>
    ELSE (IF Head(mask) = side THEN <<Head(df)>> ELSE <<>>)
         \o Part(Tail(df), Tail(mask), side)

PipelineCall(op, on, df) == [op |-> op, on |-> on, df |-> df]

\* The same two lines with the pipeline fitted again on the test split.
run_pipeline_refit(pipeline, train, test) ==
    IF pipeline = Null \/ ~CanFit(train) \/ ~CanFit(test)
    THEN [pipeline |-> pipeline, calls |-> <<>>, train_df |-> Null, test_df |-> Null]
    ELSE [pipeline |-> fit(pipeline, test),
          calls |-> <<PipelineCall("fit", "scooby_train_df", train),
                      PipelineCall("transform", "scooby_train_df", train),
                      PipelineCall("fit", "scooby_test_df", test),
                      PipelineCall("transform", "scooby_test_df", test)>>,
          train_df |-> Some(transform(fit(pipeline, train), train)),
          test_df |-> Some(transform(fit(pipeline, test), test))]

\* train_df = preprocessing_pipeline.fit(scooby_train_df).transform(scooby_train_df)
\* test_df = preprocessing_pipeline.transform(scooby_test_df)
\* A line that raises ends the cell; what the lines before it did stays.
run_pipeline(pipeline, train, test) ==
    IF pipeline = Null
    THEN [pipeline |-> pipeline, calls |-> <<>>, train_df |-> Null, test_df |-> Null]
    ELSE IF ~CanFit(train)
    THEN [pipeline |-> pipeline,
          calls |-> <<PipelineCall("fit", "scooby_train_df", train)>>,
          train_df |-> Null, test_df |-> Null]
    ELSE LET fitted == fit(pipeline, train)
             calls == <<PipelineCall("fit", "scooby_train_df", train),
                        PipelineCall("transform", "scooby_train_df", train),
                        PipelineCall("transform", "scooby_test_df", test)>>
         IN [pipeline |-> fitted, calls |-> calls,
             train_df |-> Some(transform(fitted, train)),
             test_df |-> IF CanTransform(fitted, test)
                         THEN Some(transform(fitted, test)) ELSE Null]

LabelNames == [i \in 1..Len(LABEL_COLUMNS) |-> ColumnText(LABEL_COLUMNS[i])]

\* estimator.fit(train_df): the model keeps what it was trained on.
fit_model(frame, input_cols) ==
    [input_cols |-> input_cols,
     features |-> Project(frame, input_cols),
     labels |-> Project(frame, LabelNames)]

CanFitModel(frame, input_cols) ==
    /\ Len(frame.rows) > 0
    /\ Len(input_cols) > 0
    /\ HasColumns(frame, input_cols)

\* predict raises unless the columns are the ones the model was fitted on.
CanPredict(model, names) == names = model.input_cols

\* The model's prediction for one row of feature values.
PredictRow(model, values) ==
    LET same == {i \in 1..Len(model.features) : model.features[i] = values}
    IN IF same = {} THEN model.labels[1][1]
       ELSE model.labels[CHOOSE i \in same : \A j \in same : i <= j][1]

\* A function of the warehouse.
Function(name, permanent, session, serial, imports, arity, names) ==
    [name |-> name, permanent |-> permanent, session |-> session,
     serial |-> serial, imports |-> imports, arity |-> arity, names |-> names]

\* model.predict(df) of Snowpark ML runs as a temporary function of the
\* session, one for each estimator.
temporary_predict(session, estimator, names) ==
    Function("SNOWML_PREDICT", FALSE, session, estimator, {}, Len(names), names)

\* create or replace function: the warehouse tells functions apart by name
\* and arguments, so the one replaced has the same name and as many arguments.
create_or_replace(fs, f) ==
    {g \in fs : ~(g.name = f.name /\ g.arity = f.arity)} \cup {f}

----------------------------------------------------------------------------
(* A notebook is opened: its kernel starts with nothing defined.           *)

Open(notebook, cell) ==
    /\ runs < MaxRuns
    /\ nb' = notebook
    /\ pc' = cell
    /\ runs' = runs + 1
    /\ FreshKernel
    /\ UNCHANGED <<world, server>>

StartIngest ==
    /\ nb = "none"
    /\ Open("ingest", "save_creds")

StartTransform ==
    /\ nb = "none"
    /\ Open("transform", "session")

StartModeling ==
    /\ nb = "none"
    /\ Open("modeling", "session")

\* connection_parameters = json.load(open('creds.json')); Session...create()
CreateSession ==
    /\ nb \in {"transform", "modeling"}
    /\ pc = "session"
    /\ IF localFiles["creds.json"] # Null
       THEN defined' = defined \cup {"session"} /\ UNCHANGED errors
       ELSE Raise("session") /\ UNCHANGED defined
    /\ Goto("load")
    /\ UNCHANGED <<csvFile, cv_mape, localFiles, stage, tables, functions, registrations, 
                   df_read, scooby_df, scooby_ml_df, scooby_train_df, 
                   scooby_test_df, preprocessing_pipeline, train_df, test_df, 
                   pipeline_calls, CAT_COLS, NUM_COLS, grid_search, 
                   feature_cols, test_df_w_preds, query, procs, last_call>>

\* scooby_df = session.table(input_tbl), then the filter on IMDB.
LoadTable ==
    /\ nb \in {"transform", "modeling"}
    /\ pc = "load"
    /\ IF "session" \in defined /\ tables["scooby_clean"] # Null
       THEN /\ scooby_df' = filter_imdb(tables["scooby_clean"][1])
            /\ defined' = defined \cup {"scooby_df"}
            /\ UNCHANGED errors
       ELSE Raise("load") /\ UNCHANGED <<scooby_df, defined>>
    /\ Goto("select")
    /\ UNCHANGED <<csvFile, cv_mape, localFiles, stage, tables, functions, registrations, 
                   df_read, scooby_ml_df, scooby_train_df, scooby_test_df, 
                   preprocessing_pipeline, train_df, test_df, pipeline_calls, 
                   CAT_COLS, NUM_COLS, grid_search, feature_cols, 
                   test_df_w_preds, query, procs, last_call>>

\* scooby_ml_df = scooby_df.select(...)
SelectFeatures ==
    /\ nb \in {"transform", "modeling"}
    /\ pc = "select"
    /\ IF "scooby_df" \in defined
       THEN /\ scooby_ml_df' = select(scooby_df, InputOrder)
            /\ defined' = defined \cup {"scooby_ml_df"}
            /\ UNCHANGED errors
       ELSE Raise("select") /\ UNCHANGED <<scooby_ml_df, defined>>
    /\ Goto(IF nb = "transform" THEN "pipeline" ELSE "reread")
    /\ UNCHANGED <<csvFile, cv_mape, localFiles, stage, tables, functions, registrations, 
                   df_read, scooby_df, scooby_train_df, scooby_test_df, 
                   preprocessing_pipeline, train_df, test_df, pipeline_calls, 
                   CAT_COLS, NUM_COLS, grid_search, feature_cols, 
                   test_df_w_preds, query, procs, last_call>>

----------------------------------------------------------------------------
(* The feature transformations notebook.                                   *)

\* The pipeline is built and dumped to the local file as built; then it is
\* fitted on scooby_ml_df and transforms it.
TransformPipeline ==
    /\ At("transform", "pipeline")
    /\ localFiles' = [localFiles EXCEPT !["preprocessing_pipeline.joblib"] = Some(NewPipeline)]
    /\ IF "scooby_ml_df" \in defined /\ CanFit(scooby_ml_df)
       THEN /\ preprocessing_pipeline' = fit(NewPipeline, scooby_ml_df)
            /\ pipeline_calls' = <<PipelineCall("fit", "scooby_ml_df", scooby_ml_df),
                                   PipelineCall("transform", "scooby_ml_df", scooby_ml_df)>>
            /\ UNCHANGED errors
       ELSE /\ preprocessing_pipeline' = NewPipeline
            /\ Raise("pipeline")
            /\ UNCHANGED pipeline_calls
    /\ defined' = defined \cup {"preprocessing_pipeline"}
    /\ Goto("put")
    /\ UNCHANGED <<csvFile, cv_mape, stage, tables, functions, registrations, df_read, 
                   scooby_df, scooby_ml_df, scooby_train_df, scooby_test_df, 
                   train_df, test_df, CAT_COLS, NUM_COLS, grid_search, 
                   feature_cols, test_df_w_preds, query, procs, last_call>>

\* session.file.put(PIPELINE_FILE, "@SCOOBY_ASSETS", overwrite=True)
TransformPut ==
    /\ At("transform", "put")
    /\ IF "session" \in defined
       THEN /\ stage' = [stage EXCEPT !["preprocessing_pipeline.joblib.gz"] =
                                          localFiles["preprocessing_pipeline.joblib"]]
            /\ UNCHANGED errors
       ELSE Raise("put") /\ UNCHANGED stage
    /\ Goto("close")
    /\ UNCHANGED <<csvFile, cv_mape, localFiles, tables, functions, registrations, 
                   defined, df_read, scooby_df, scooby_ml_df, scooby_train_df, 
                   scooby_test_df, preprocessing_pipeline, train_df, test_df, 
                   pipeline_calls, CAT_COLS, NUM_COLS, grid_search, 
                   feature_cols, test_df_w_preds, query, procs, last_call>>

----------------------------------------------------------------------------
(* The modeling notebook.                                                  *)

\* scooby_df = session.read...schema(scooby_schema).csv("@SCOOBY_ASSETS"):
\* the notebook defines no scooby_schema, the line raises NameError.
ModelReread ==
    /\ At("modeling", "reread")
    /\ Raise("reread")
    /\ Goto("load_pipeline")
    /\ UNCHANGED <<csvFile, cv_mape, localFiles, stage, tables, functions, registrations, 
                   defined, df_read, scooby_df, scooby_ml_df, scooby_train_df, 
                   scooby_test_df, preprocessing_pipeline, train_df, test_df, 
                   pipeline_calls, CAT_COLS, NUM_COLS, grid_search, 
                   feature_cols, test_df_w_preds, query, procs, last_call>>

\* preprocessing_pipeline = joblib.load(PIPELINE_FILE)
ModelLoadPipeline ==
    /\ At("modeling", "load_pipeline")
    /\ IF localFiles["preprocessing_pipeline.joblib"] # Null
       THEN /\ preprocessing_pipeline' = localFiles["preprocessing_pipeline.joblib"][1]
            /\ defined' = defined \cup {"preprocessing_pipeline"}
            /\ UNCHANGED errors
       ELSE Raise("load_pipeline") /\ UNCHANGED <<preprocessing_pipeline, defined>>
    /\ Goto("split")
    /\ UNCHANGED <<csvFile, cv_mape, localFiles, stage, tables, functions, registrations, 
                   df_read, scooby_df, scooby_ml_df, scooby_train_df, 
                   scooby_test_df, train_df, test_df, pipeline_calls, CAT_COLS, 
                   NUM_COLS, grid_search, feature_cols, test_df_w_preds, query, 
                   procs, last_call>>

\* random_split(weights=[0.9, 0.1], seed=0): the weights in tenths.
WEIGHTS == <<9, 1>>
SEED == 0

\* df.random_split(weights, seed): every row is given a number drawn by
\* RANDOM(seed) and goes to the first part if the number is below the first
\* weight's share, to the second part otherwise.  The number a row is given
\* depends on the order in which the warehouse scans the rows, which the
\* seed does not fix: the splits the call can return are the ones of every
\* draw.  A part of weight 0 gets no row.
random_split(df, weights, seed) ==
    {[train |-> Part(df, mask, TRUE), test |-> Part(df, mask, FALSE)] :
        mask \in {m \in [1..Len(df) -> BOOLEAN] :
                     \A i \in 1..Len(df) : weights[IF m[i] THEN 1 ELSE 2] > 0}}

\* The split and the two pipeline lines.
ModelSplit ==
    /\ At("modeling", "split")
    /\ IF "scooby_ml_df" \notin defined
       THEN /\ Raise("split")
            /\ UNCHANGED <<defined, scooby_train_df, scooby_test_df,
                           preprocessing_pipeline, pipeline_calls, train_df, test_df>>
       ELSE \E split \in random_split(scooby_ml_df, WEIGHTS, SEED) :
              LET train == split.train
                  test == split.test
                  ran == run_pipeline(IF "preprocessing_pipeline" \in defined
                                      THEN preprocessing_pipeline ELSE Null, train, test)
              IN /\ scooby_train_df' = train
                 /\ scooby_test_df' = test
                 /\ preprocessing_pipeline' = ran.pipeline
                 /\ pipeline_calls' = pipeline_calls \o ran.calls
                 /\ train_df' = IF ran.train_df = Null THEN train_df ELSE ran.train_df[1]
                 /\ test_df' = IF ran.test_df = Null THEN test_df ELSE ran.test_df[1]
                 /\ defined' = defined \cup {"scooby_train_df", "scooby_test_df"}
                                \cup (IF ran.train_df = Null THEN {} ELSE {"train_df"})
                                \cup (IF ran.test_df = Null THEN {} ELSE {"test_df"})
                 /\ errors' = IF ran.test_df = Null THEN errors \cup {"split"} ELSE errors
    /\ Goto("cols")
    /\ UNCHANGED <<csvFile, cv_mape, localFiles, stage, tables, functions, registrations, 
                   df_read, scooby_df, scooby_ml_df, CAT_COLS, NUM_COLS, 
                   grid_search, feature_cols, test_df_w_preds, query, procs, 
                   last_call>>

\* CAT_COLS takes the '_NORM' names and NUM_COLS the '_OHE' names.
ModelCols ==
    /\ At("modeling", "cols")
    /\ IF "train_df" \in defined
       THEN /\ CAT_COLS' = ColumnsWith(train_df.columns, NORM_TEXT)
            /\ NUM_COLS' = ColumnsWith(train_df.columns, OHE_TEXT)
            /\ defined' = defined \cup {"CAT_COLS", "NUM_COLS"}
            /\ UNCHANGED errors
       ELSE Raise("cols") /\ UNCHANGED <<CAT_COLS, NUM_COLS, defined>>
    /\ Goto("regressor")
    /\ UNCHANGED <<csvFile, cv_mape, localFiles, stage, tables, functions, registrations, 
                   df_read, scooby_df, scooby_ml_df, scooby_train_df, 
                   scooby_test_df, preprocessing_pipeline, train_df, test_df, 
                   pipeline_calls, grid_search, feature_cols, test_df_w_preds, 
                   query, procs, last_call>>

\* regressor.fit(train_df); result = regressor.predict(test_df)
ModelRegressor ==
    /\ At("modeling", "regressor")
    /\ IF /\ {"CAT_COLS", "test_df"} \subseteq defined
          /\ CanFitModel(train_df, CAT_COLS \o NUM_COLS)
       THEN /\ functions' = functions \cup {temporary_predict(runs, 1, CAT_COLS \o NUM_COLS)}
            /\ UNCHANGED errors
       ELSE Raise("regressor") /\ UNCHANGED functions
    /\ Goto("grid_search")
    /\ UNCHANGED <<csvFile, cv_mape, localFiles, stage, tables, registrations, defined, 
                   df_read, scooby_df, scooby_ml_df, scooby_train_df, 
                   scooby_test_df, preprocessing_pipeline, train_df, test_df, 
                   pipeline_calls, CAT_COLS, NUM_COLS, grid_search, 
                   feature_cols, test_df_w_preds, query, procs, last_call>>

\* param_grid: n_estimators, and learning_rate in tenths.
N_ESTIMATORS == <<100, 200, 300, 400, 500>>
LEARNING_RATE == <<1, 2, 3, 4, 5>>

\* The candidates in the order the search tries them: the keys of the grid
\* sorted, the last key changing fastest.
ParamGrid ==
    [c \in 1..(Len(LEARNING_RATE) * Len(N_ESTIMATORS)) |->
        [learning_rate |-> LEARNING_RATE[((c - 1) \div Len(N_ESTIMATORS)) + 1],
         n_estimators |-> N_ESTIMATORS[((c - 1) % Len(N_ESTIMATORS)) + 1]]]

\* A scorer that returns the error itself.
mean_absolute_percentage_error_score(mape) == mape

\* scoring="neg_mean_absolute_percentage_error": greater is better.
neg_mean_absolute_percentage_error(mape) == 0 - mape

\* cv_results_["mean_test_score"] for the mean MAPE of each candidate.
mean_test_score(mapes) ==
    [c \in 1..Len(ParamGrid) |-> neg_mean_absolute_percentage_error(mapes[c])]

\* best_index_: the first candidate of rank 1, the greatest mean score.
best_index_(scores) ==
    CHOOSE c \in 1..Len(scores) :
        /\ \A d \in 1..Len(scores) : scores[d] <= scores[c]
        /\ \A d \in 1..(c - 1) : scores[d] < scores[c]

\* GridSearchCV(...).fit(train_df): every candidate is cross-validated, the
\* best one is fitted again on all of train_df and kept as best_estimator_.
GridSearchCV(frame, input_cols, mapes) ==
    LET scores == mean_test_score(mapes)
        fitted == fit_model(frame, input_cols)
    IN [input_cols |-> fitted.input_cols,
        features |-> fitted.features,
        labels |-> fitted.labels,
        mean_test_score |-> scores,
        best_index_ |-> best_index_(scores),
        best_params_ |-> ParamGrid[best_index_(scores)]]

\* grid_search.fit(train_df)
ModelGridSearch ==
    /\ At("modeling", "grid_search")
    /\ IF "CAT_COLS" \in defined /\ CanFitModel(train_df, CAT_COLS \o NUM_COLS)
       THEN /\ grid_search' = Some(GridSearchCV(train_df, CAT_COLS \o NUM_COLS, cv_mape))
            /\ defined' = defined \cup {"grid_search"}
            /\ UNCHANGED errors
       ELSE Raise("grid_search") /\ UNCHANGED <<grid_search, defined>>
    /\ Goto("predict")
    /\ UNCHANGED <<csvFile, cv_mape, localFiles, stage, tables, functions, registrations, 
                   df_read, scooby_df, scooby_ml_df, scooby_train_df, 
                   scooby_test_df, preprocessing_pipeline, train_df, test_df, 
                   pipeline_calls, CAT_COLS, NUM_COLS, feature_cols, 
                   test_df_w_preds, query, procs, last_call>>

\* result = grid_search.predict(test_df)
ModelPredict ==
    /\ At("modeling", "predict")
    /\ IF {"grid_search", "test_df"} \subseteq defined
       THEN /\ functions' = functions \cup {temporary_predict(runs, 2, grid_search[1].input_cols)}
            /\ UNCHANGED errors
       ELSE Raise("predict") /\ UNCHANGED functions
    /\ Goto("save_model")
    /\ UNCHANGED <<csvFile, cv_mape, localFiles, stage, tables, registrations, defined, 
                   df_read, scooby_df, scooby_ml_df, scooby_train_df, 
                   scooby_test_df, preprocessing_pipeline, train_df, test_df, 
                   pipeline_calls, CAT_COLS, NUM_COLS, grid_search, 
                   feature_cols, test_df_w_preds, query, procs, last_call>>

\* joblib.dump(grid_search.to_sklearn(), MODEL_FILE), then the put with
\* overwrite=True, which stores the file compressed as model.joblib.gz.
ModelSave ==
    /\ At("modeling", "save_model")
    /\ IF "grid_search" \in defined
       THEN /\ localFiles' = [localFiles EXCEPT !["model.joblib"] = grid_search]
            /\ stage' = [stage EXCEPT !["model.joblib.gz"] = grid_search]
            /\ UNCHANGED errors
       ELSE Raise("save_model") /\ UNCHANGED <<localFiles, stage>>
    /\ Goto("feature_cols")
    /\ UNCHANGED <<csvFile, cv_mape, tables, functions, registrations, defined, df_read, 
                   scooby_df, scooby_ml_df, scooby_train_df, scooby_test_df, 
                   preprocessing_pipeline, train_df, test_df, pipeline_calls, 
                   CAT_COLS, NUM_COLS, grid_search, feature_cols, 
                   test_df_w_preds, query, procs, last_call>>

\* feature_cols = test_df[CAT_COLS + NUM_COLS].columns
ModelFeatureCols ==
    /\ At("modeling", "feature_cols")
    /\ IF {"CAT_COLS", "test_df"} \subseteq defined /\ HasColumns(test_df, CAT_COLS \o NUM_COLS)
       THEN /\ feature_cols' = CAT_COLS \o NUM_COLS
            /\ defined' = defined \cup {"feature_cols"}
            /\ UNCHANGED errors
       ELSE Raise("feature_cols") /\ UNCHANGED <<feature_cols, defined>>
    /\ Goto("register")
    /\ UNCHANGED <<csvFile, cv_mape, localFiles, stage, tables, functions, registrations, 
                   df_read, scooby_df, scooby_ml_df, scooby_train_df, 
                   scooby_test_df, preprocessing_pipeline, train_df, test_df, 
                   pipeline_calls, CAT_COLS, NUM_COLS, grid_search, 
                   test_df_w_preds, query, procs, last_call>>

----------------------------------------------------------------------------
(* The registered function and the processes that run it.                  *)

MODEL_IMPORT == "model.joblib.gz"

\* The same decorator with is_permanent=False.
udf_registration_temporary(session, serial, arity, names) ==
    Function("batch_predict_imdb", FALSE, session, serial, {MODEL_IMPORT}, arity, names)

\* The same decorator over a function that names the columns in the
\* opposite order.
udf_registration_reversed(session, serial, arity, names) ==
    Function("batch_predict_imdb", TRUE, session, serial, {MODEL_IMPORT}, arity,
             [i \in 1..Len(names) |-> names[Len(names) + 1 - i]])

\* @udf(name='batch_predict_imdb', replace=True, is_permanent=True,
\*      input_types=[F.FloatType()]*len(feature_cols),
\*      imports=['@SCOOBY_ASSETS/model.joblib.gz'], ...)
\* The function is pickled with the CAT_COLS + NUM_COLS of the kernel.
udf_registration(session, serial, arity, names) ==
    Function("batch_predict_imdb", TRUE, session, serial, {MODEL_IMPORT}, arity, names)

\* A process that has not started, and one started for a function: its
\* import directory holds the imports as the stage has them, its cache is
\* the empty dictionary of the decorator.
NoProcess ==
    [alive |-> FALSE, import_dir |-> Null, cache |-> [k \in {MODEL_IMPORT} |-> Null],
     opened |-> 0, calls |-> 0, first |-> Null, last |-> Null]

StartedProcess(f) ==
    [NoProcess EXCEPT !.alive = TRUE, !.import_dir = Some([n \in f.imports |-> stage[n]])]

\* The body of load_model: the file is opened and deserialized into a new
\* object; without an import directory the function returns None.
open_model(proc, filename) ==
    IF proc.import_dir # Null
    THEN [id |-> proc.opened + 1, model |-> proc.import_dir[1][filename]]
    ELSE [id |-> 0, model |-> Null]

Opened(proc) == IF proc.import_dir # Null THEN proc.opened + 1 ELSE proc.opened

\* load_model without the decorator.
load_model_uncached(proc, filename) ==
    [proc |-> [proc EXCEPT !.opened = Opened(proc)], object |-> open_model(proc, filename)]

\* @cachetools.cached(cache={}) def load_model(filename)
load_model(proc, filename) ==
    IF proc.cache[filename] # Null
    THEN [proc |-> proc, object |-> proc.cache[filename][1]]
    ELSE [proc |-> [proc EXCEPT !.cache[filename] = Some(open_model(proc, filename)),
                                !.opened = Opened(proc)],
          object |-> open_model(proc, filename)]

\* The columns of a batch as the function receives them: numbered.
Positions(batch) == IF batch = <<>> THEN <<>> ELSE [j \in 1..Len(batch[1]) |-> <<Digits[((j - 1) % 10) + 1]>>]

\* The function without the line that names the columns.
batch_predict_imdb_unnamed(proc, names, batch) ==
    LET loaded == load_model(proc, MODEL_IMPORT)
    IN [proc |-> loaded.proc, loaded |-> Some(loaded.object),
        result |-> IF loaded.object.model = Null
                      \/ ~CanPredict(loaded.object.model[1], Positions(batch))
                   THEN Null
                   ELSE Some([i \in 1..Len(batch) |->
                                 PredictRow(loaded.object.model[1], batch[i])])]

\* def batch_predict_imdb(test_df):
\*     test_df.columns = CAT_COLS + NUM_COLS
\*     model = load_model('model.joblib.gz')
\*     return model.predict(test_df)
\* A result of Null: the call raised.
batch_predict_imdb(proc, names, batch) ==
    IF \E i \in 1..Len(batch) : Len(batch[i]) # Len(names)
    THEN [proc |-> proc, loaded |-> Null, result |-> Null]
    ELSE LET loaded == load_model(proc, MODEL_IMPORT)
         IN [proc |-> loaded.proc, loaded |-> Some(loaded.object),
             result |-> IF loaded.object.model = Null
                           \/ ~CanPredict(loaded.object.model[1], names)
                        THEN Null
                        ELSE Some([i \in 1..Len(batch) |->
                                      PredictRow(loaded.object.model[1], batch[i])])]

UDF_FILE == "batch_predict_imdb/udf_py.zip"

\* The cell that defines load_model and registers batch_predict_imdb.
ModelRegister ==
    /\ At("modeling", "register")
    /\ IF {"session", "feature_cols"} \subseteq defined /\ stage[MODEL_IMPORT] # Null
       THEN /\ functions' = create_or_replace(functions,
                                udf_registration(runs, registrations + 1,
                                                 Len(feature_cols), CAT_COLS \o NUM_COLS))
            /\ registrations' = registrations + 1
            /\ stage' = [stage EXCEPT ![UDF_FILE] = Some(registrations + 1)]
            /\ defined' = defined \cup {"batch_predict_imdb"}
            /\ UNCHANGED errors
       ELSE Raise("register") /\ UNCHANGED <<functions, registrations, stage, defined>>
    /\ Goto("call_udf")
    /\ UNCHANGED <<csvFile, cv_mape, localFiles, tables, df_read, scooby_df, 
                   scooby_ml_df, scooby_train_df, scooby_test_df, 
                   preprocessing_pipeline, train_df, test_df, pipeline_calls, 
                   CAT_COLS, NUM_COLS, grid_search, feature_cols, 
                   test_df_w_preds, query, procs, last_call>>

\* The registration cell is run again.
RerunRegister ==
    /\ At("modeling", "call_udf")
    /\ "batch_predict_imdb" \in defined
    /\ registrations < MaxRegistrations
    /\ Goto("register")
    /\ UNCHANGED <<csvFile, cv_mape, localFiles, stage, tables, functions, registrations, 
                   errors, defined, df_read, scooby_df, scooby_ml_df, 
                   scooby_train_df, scooby_test_df, preprocessing_pipeline, 
                   train_df, test_df, pipeline_calls, CAT_COLS, NUM_COLS, 
                   grid_search, feature_cols, test_df_w_preds, query, procs, 
                   last_call>>

Registered == {f \in functions : f.name = "batch_predict_imdb"}

\* A query that adds PREDICTED_IMDB to test_df with the function.
Query(kind) ==
    [kind |-> kind,
     function |-> CHOOSE f \in Registered : f.arity = Len(feature_cols),
     todo |-> Project(test_df, feature_cols), result |-> <<>>, failed |-> FALSE]

CanQuery ==
    /\ {"batch_predict_imdb", "test_df", "feature_cols"} \subseteq defined
    /\ \E f \in Registered : f.arity = Len(feature_cols)

\* test_df_w_preds = test_df.with_column('PREDICTED_IMDB',
\*                                       batch_predict_imdb(*feature_cols))
\* test_df_w_preds.show()
ModelCallUdf ==
    /\ At("modeling", "call_udf")
    /\ IF CanQuery
       THEN query' = Some(Query("show")) /\ Goto("show") /\ UNCHANGED errors
       ELSE Raise("call_udf") /\ Goto("write") /\ UNCHANGED query
    /\ UNCHANGED <<csvFile, cv_mape, localFiles, stage, tables, functions, registrations, 
                   defined, df_read, scooby_df, scooby_ml_df, scooby_train_df, 
                   scooby_test_df, preprocessing_pipeline, train_df, test_df, 
                   pipeline_calls, CAT_COLS, NUM_COLS, grid_search, 
                   feature_cols, test_df_w_preds, procs, last_call>>

\* The warehouse hands the next rows of the query, as one batch, to one of
\* the processes of the function.
UdfBatch ==
    /\ query # Null
    /\ ~query[1].failed
    /\ \E k \in 1..Len(query[1].todo), p \in 1..MaxProcs :
          LET f == query[1].function
              proc == IF procs[p].alive THEN procs[p] ELSE StartedProcess(f)
              batch == SubSeq(query[1].todo, 1, k)
              ran == batch_predict_imdb(proc, f.names, batch)
          IN /\ procs' = [procs EXCEPT ![p] =
                            [ran.proc EXCEPT
                                !.calls = IF ran.loaded = Null THEN @ ELSE @ + 1,
                                !.first = IF @ = Null THEN ran.loaded ELSE @,
                                !.last = IF ran.loaded = Null THEN @ ELSE ran.loaded]]
             /\ last_call' = Some([proc |-> p, names |-> f.names, batch |-> batch,
                                   import_dir |-> proc.import_dir, result |-> ran.result])
             /\ query' = Some([query[1] EXCEPT
                                  !.todo = SubSeq(@, k + 1, Len(@)),
                                  !.result = IF ran.result = Null THEN @ ELSE @ \o ran.result[1],
                                  !.failed = ran.result = Null])
    /\ UNCHANGED <<csvFile, cv_mape, localFiles, stage, tables, functions, registrations, 
                   nb, pc, runs, errors, defined, df_read, scooby_df, 
                   scooby_ml_df, scooby_train_df, scooby_test_df, 
                   preprocessing_pipeline, train_df, test_df, pipeline_calls, 
                   CAT_COLS, NUM_COLS, grid_search, feature_cols, 
                   test_df_w_preds>>

QueryEnded == query # Null /\ (query[1].failed \/ query[1].todo = <<>>)

WithPredictions(frame, predictions) ==
    [columns |-> frame.columns \o <<<<"P","R","E","D","I","C","T","E","D","_","I","M","D","B">>>>,
     rows |-> [i \in 1..Len(frame.rows) |-> frame.rows[i] \o <<predictions[i]>>]]

\* The query of show() ends: the processes of the query end with it.
ShowDone ==
    /\ At("modeling", "show")
    /\ QueryEnded
    /\ IF query[1].failed
       THEN Raise("call_udf") /\ UNCHANGED test_df_w_preds
       ELSE test_df_w_preds' = WithPredictions(test_df, query[1].result) /\ UNCHANGED errors
    /\ defined' = defined \cup {"test_df_w_preds"}
    /\ query' = Null
    /\ procs' = [p \in 1..MaxProcs |-> NoProcess]
    /\ Goto("write")
    /\ UNCHANGED <<csvFile, cv_mape, localFiles, stage, tables, functions, registrations, 
                   df_read, scooby_df, scooby_ml_df, scooby_train_df, 
                   scooby_test_df, preprocessing_pipeline, train_df, test_df, 
                   pipeline_calls, CAT_COLS, NUM_COLS, grid_search, 
                   feature_cols, last_call>>

\* test_df_w_preds.write.mode('overwrite').save_as_table('scooby_w_predictions')
\* runs the query again.
ModelWrite ==
    /\ At("modeling", "write")
    /\ IF "test_df_w_preds" \in defined /\ CanQuery
       THEN query' = Some(Query("write")) /\ Goto("writing") /\ UNCHANGED errors
       ELSE Raise("write") /\ Goto("close") /\ UNCHANGED query
    /\ UNCHANGED <<csvFile, cv_mape, localFiles, stage, tables, functions, registrations, 
                   defined, df_read, scooby_df, scooby_ml_df, scooby_train_df, 
                   scooby_test_df, preprocessing_pipeline, train_df, test_df, 
                   pipeline_calls, CAT_COLS, NUM_COLS, grid_search, 
                   feature_cols, test_df_w_preds, procs, last_call>>

WriteDone ==
    /\ At("modeling", "writing")
    /\ QueryEnded
    /\ IF query[1].failed
       THEN Raise("write") /\ UNCHANGED tables
       ELSE /\ tables' = [tables EXCEPT !["scooby_w_predictions"] =
                          save_as_table(@, WithPredictions(test_df, query[1].result))]
            /\ UNCHANGED errors
    /\ query' = Null
    /\ procs' = [p \in 1..MaxProcs |-> NoProcess]
    /\ Goto("close")
    /\ UNCHANGED <<csvFile, cv_mape, localFiles, stage, functions, registrations, 
                   defined, df_read, scooby_df, scooby_ml_df, scooby_train_df, 
                   scooby_test_df, preprocessing_pipeline, train_df, test_df, 
                   pipeline_calls, CAT_COLS, NUM_COLS, grid_search, 
                   feature_cols, test_df_w_preds, last_call>>

----------------------------------------------------------------------------
(* The whole workflow: the CSV file is any short dataset of sample rows,   *)
(* the notebooks are opened one at a time in any order.                    *)

Text1(a) == Some(<<a>>)

SampleRow(imdb, engagement, format, gender, amount) ==
    [IMDB |-> imdb, ENGAGEMENT |-> engagement,
     MONSTER_REAL |-> Some(<<"F","A","L","S","E">>),
     MONSTER_AMOUNT |-> Text1("1"), CULPRIT_AMOUNT |-> amount,
     FORMAT |-> format, MONSTER_TYPE |-> Some(<<"G","h","o","s","t">>),
     CULPRIT_GENDER |-> gender]

SampleRows ==
    {SampleRow(Text1("7"), Text1("1"), Some(<<"T","V">>), Some(<<"M","a","l","e">>), Text1("1")),
     SampleRow(Some(NULLTEXT), Text1("2"), Some(<<"T","V">>), Some(<<"M","a","l","e">>), Text1("1")),
     SampleRow(Text1("8"), Text1("3"), Some(<<"M","o","v","i","e">>), Some(NULLTEXT), Text1("2")),
     SampleRow(Text1("6"), Text1("4"), Some(<<"T","V">>), Some(<<"M","a","l","e">>), Text1("1"))}

RECURSIVE SeqsUpTo(_, _)
SeqsUpTo(S, n) ==
    IF n = 0 THEN {<<>>}
    ELSE SeqsUpTo(S, n - 1) \cup {Append(q, x) : q \in SeqsUpTo(S, n - 1), x \in S}

\* A cross-validation in which every candidate does as well as the others.
EvenMape == [c \in 1..Len(ParamGrid) |-> MaxMape]

Init ==
    /\ csvFile \in SeqsUpTo(SampleRows, MaxRows) \ {<<>>}
    /\ cv_mape = EvenMape
    /\ localFiles = [n \in LocalNames |-> Null]
    /\ stage = [n \in StageNames |-> Null]
    /\ tables = [n \in TableNames |-> Null]
    /\ functions = {}
    /\ registrations = 0
    /\ nb = "none"
    /\ pc = "none"
    /\ runs = 0
    /\ errors = {}
    /\ defined = {}
    /\ CAT_COLS = <<>>
    /\ NUM_COLS = <<>>
    /\ df_read = <<>>
    /\ scooby_df = <<>>
    /\ scooby_ml_df = <<>>
    /\ scooby_train_df = <<>>
    /\ scooby_test_df = <<>>
    /\ preprocessing_pipeline = Null
    /\ train_df = EmptyFrame
    /\ test_df = EmptyFrame
    /\ pipeline_calls = <<>>
    /\ grid_search = Null
    /\ feature_cols = <<>>
    /\ test_df_w_preds = EmptyFrame
    /\ query = Null
    /\ procs = [p \in 1..MaxProcs |-> NoProcess]
    /\ last_call = Null

Next ==
    \/ StartIngest
    \/ IngestSaveCreds
    \/ IngestPut
    \/ IngestRead
    \/ IngestCast
    \/ IngestFixUnique
    \/ IngestMultiValue
    \/ IngestFixMulti
    \/ IngestWrite
    \/ StartTransform
    \/ StartModeling
    \/ CreateSession
    \/ LoadTable
    \/ SelectFeatures
    \/ TransformPipeline
    \/ TransformPut
    \/ ModelReread
    \/ ModelLoadPipeline
    \/ ModelSplit
    \/ ModelCols
    \/ ModelRegressor
    \/ ModelGridSearch
    \/ ModelPredict
    \/ ModelSave
    \/ ModelFeatureCols
    \/ ModelRegister
    \/ RerunRegister
    \/ ModelCallUdf
    \/ UdfBatch
    \/ ShowDone
    \/ ModelWrite
    \/ WriteDone
    \/ CloseSession

Spec == Init /\ [][Next]_vars

----------------------------------------------------------------------------
(* The scoring function on its own: the modeling notebook has registered   *)
(* the function for some table and some split, and the query of show() has *)
(* just started.                                                           *)

ScoreRows == {r \in SampleRows : r["IMDB"] # Some(NULLTEXT)}

AllDefined ==
    {"session", "scooby_df", "scooby_ml_df", "preprocessing_pipeline",
     "scooby_train_df", "scooby_test_df", "train_df", "test_df", "CAT_COLS",
     "NUM_COLS", "grid_search", "feature_cols", "batch_predict_imdb"}

\* The state of a run of the modeling notebook that has registered the
\* function and started the query of show(): for a CSV file, the table the
\* ingest notebook made of it, a split of the table and what the pipeline
\* lines and the grid search made of the split.  run is the number of the
\* run, serial the number of the registration, written what an earlier run
\* has left in scooby_w_predictions.
RegisteredRun(csv, table, train, test, ran, model, run, serial, written) ==
    /\ csvFile = csv
    /\ cv_mape = EvenMape
    /\ localFiles = [n \in LocalNames |->
                        CASE n = "creds.json" -> Some("connection_parameters")
                          [] n = "preprocessing_pipeline.joblib" -> Some(NewPipeline)
                          [] n = "model.joblib" -> Some(model)]
    /\ stage = [n \in StageNames |->
                   CASE n = CSV_FILE -> Some(csv)
                     [] n = "preprocessing_pipeline.joblib.gz" -> Some(NewPipeline)
                     [] n = MODEL_IMPORT -> Some(model)
                     [] n = UDF_FILE -> Some(1)]
    /\ tables = [n \in TableNames |-> IF n = "scooby_clean" THEN Some(table) ELSE written]
    /\ functions = {temporary_predict(run, 1, model.input_cols),
                    temporary_predict(run, 2, model.input_cols),
                    udf_registration(run, serial, Len(model.input_cols), model.input_cols)}
    /\ registrations = serial
    /\ nb = "modeling"
    /\ pc = "show"
    /\ runs = run
    /\ errors = {"reread"}
    /\ defined = AllDefined
    /\ df_read = <<>>
    /\ scooby_df = filter_imdb(table)
    /\ scooby_ml_df = select(filter_imdb(table), InputOrder)
    /\ scooby_train_df = train
    /\ scooby_test_df = test
    /\ preprocessing_pipeline = ran.pipeline
    /\ train_df = ran.train_df[1]
    /\ test_df = ran.test_df[1]
    /\ pipeline_calls = ran.calls
    /\ CAT_COLS = ColumnsWith(ran.train_df[1].columns, NORM_TEXT)
    /\ NUM_COLS = ColumnsWith(ran.train_df[1].columns, OHE_TEXT)
    /\ grid_search = Some(model)
    /\ feature_cols = model.input_cols
    /\ test_df_w_preds = EmptyFrame
    /\ query = Some(Query("show"))
    /\ procs = [p \in 1..MaxProcs |-> NoProcess]
    /\ last_call = Null

\* The third notebook run, after one run of each of the two other notebooks.
Registered3(csv, table, train, test, ran, model) ==
    RegisteredRun(csv, table, train, test, ran, model, 3, 1, Null)

InitScore ==
    \E csv \in SeqsUpTo(ScoreRows, MaxTableRows) \ {<<>>} :
    \E mask \in [1..Len(csv) -> BOOLEAN] :
    \E cast \in {cast_types(csv)} :
    \E fixed \in {fix_unique_values(cast)} :
    \E cleaned \in {clean_multi_values(fixed)} :
    \E table \in {fix_multi_values(cleaned)} :
    \E ml \in {select(filter_imdb(table), InputOrder)} :
    \E train \in {Part(ml, mask, TRUE)} :
    \E test \in {Part(ml, mask, FALSE)} :
    \E ran \in {run_pipeline(NewPipeline, train, test)} :
        /\ ran.test_df # Null
        /\ \E names \in {ColumnsWith(ran.train_df[1].columns, NORM_TEXT)
                         \o ColumnsWith(ran.train_df[1].columns, OHE_TEXT)} :
           \E model \in {GridSearchCV(ran.train_df[1], names, EvenMape)} :
              Registered3(csv, table, train, test, ran, model)

NextScore ==
    \/ UdfBatch
    \/ ShowDone
    \/ ModelWrite
    \/ WriteDone

SpecScore == InitScore /\ [][NextScore]_vars

----------------------------------------------------------------------------
(* A notebook is run again over tables that an earlier run has written:    *)
(* either the modeling notebook, after a run of it that split the same     *)
(* table in some way and wrote its predictions, or the ingest notebook,    *)
(* after the transformations notebook has staged the pipeline.             *)

\* What a run of the ingest notebook makes of the rows it has read.
Cleaned(df) == fix_multi_values(clean_multi_values(fix_unique_values(cast_types(df))))

\* test_df with the model's prediction for each of its rows.
Scored(frame, model) ==
    WithPredictions(frame, [i \in 1..Len(frame.rows) |->
                               PredictRow(model, Project(frame, model.input_cols)[i])])

\* The ingest notebook has just been opened for the third run; the first
\* run wrote the table, the second staged the pipeline.
Reopened(csv, table) ==
    /\ csvFile = csv
    /\ cv_mape = EvenMape
    /\ localFiles = [n \in LocalNames |->
                        CASE n = "creds.json" -> Some("connection_parameters")
                          [] n = "preprocessing_pipeline.joblib" -> Some(NewPipeline)
                          [] n = "model.joblib" -> Null]
    /\ stage = [n \in StageNames |->
                   CASE n = CSV_FILE -> Some(csv)
                     [] n = "preprocessing_pipeline.joblib.gz" -> Some(NewPipeline)
                     [] n = MODEL_IMPORT -> Null
                     [] n = UDF_FILE -> Null]
    /\ tables = [n \in TableNames |-> IF n = "scooby_clean" THEN Some(table) ELSE Null]
    /\ functions = {}
    /\ registrations = 0
    /\ nb = "ingest"
    /\ pc = "save_creds"
    /\ runs = 3
    /\ errors = {}
    /\ defined = {}
    /\ CAT_COLS = <<>>
    /\ NUM_COLS = <<>>
    /\ df_read = <<>>
    /\ scooby_df = <<>>
    /\ scooby_ml_df = <<>>
    /\ scooby_train_df = <<>>
    /\ scooby_test_df = <<>>
    /\ preprocessing_pipeline = Null
    /\ train_df = EmptyFrame
    /\ test_df = EmptyFrame
    /\ pipeline_calls = <<>>
    /\ grid_search = Null
    /\ feature_cols = <<>>
    /\ test_df_w_preds = EmptyFrame
    /\ query = Null
    /\ procs = [p \in 1..MaxProcs |-> NoProcess]
    /\ last_call = Null

InitRerun ==
    \E csv \in SeqsUpTo(SampleRows, MaxRows) \ {<<>>} :
    \E table \in {Cleaned(csv)} :
       \/ Reopened(csv, table)
       \/ \E ml \in {select(filter_imdb(table), InputOrder)} :
          \E before \in [1..Len(ml) -> BOOLEAN] :
          \E earlier \in {run_pipeline(NewPipeline, Part(ml, before, TRUE),
                                       Part(ml, before, FALSE))} :
          \E mask \in [1..Len(ml) -> BOOLEAN] :
          \E train \in {Part(ml, mask, TRUE)} :
          \E test \in {Part(ml, mask, FALSE)} :
          \E ran \in {run_pipeline(NewPipeline, train, test)} :
             /\ earlier.test_df # Null
             /\ ran.test_df # Null
             /\ \E names \in {ColumnsWith(ran.train_df[1].columns, NORM_TEXT)
                              \o ColumnsWith(ran.train_df[1].columns, OHE_TEXT)} :
                \E was \in {ColumnsWith(earlier.train_df[1].columns, NORM_TEXT)
                            \o ColumnsWith(earlier.train_df[1].columns, OHE_TEXT)} :
                \E model \in {GridSearchCV(ran.train_df[1], names, EvenMape)} :
                \E written \in {Scored(earlier.test_df[1],
                                       GridSearchCV(earlier.train_df[1], was, EvenMape))} :
                   RegisteredRun(csv, table, train, test, ran, model, 4, 2, Some(written))

NextRerun ==
    \/ IngestSaveCreds
    \/ IngestPut
    \/ IngestRead
    \/ IngestCast
    \/ IngestFixUnique
    \/ IngestMultiValue
    \/ IngestFixMulti
    \/ IngestWrite
    \/ UdfBatch
    \/ ShowDone
    \/ ModelWrite
    \/ WriteDone
    \/ CloseSession

SpecRerun == InitRerun /\ [][NextRerun]_vars

----------------------------------------------------------------------------
(* The grid search on its own: the modeling notebook has reached the cell  *)
(* of the grid search, and cross-validation may measure any of a family of *)
(* outcomes.                                                               *)

\* Outcomes in which at most two candidates do better than the others.
GridMapes ==
    {[c \in 1..Len(ParamGrid) |-> IF c = i THEN a ELSE IF c = j THEN b ELSE MaxMape] :
        i \in 1..Len(ParamGrid), j \in 1..Len(ParamGrid), a \in 0..MaxMape, b \in 0..MaxMape}

\* The third notebook run before the cell of the grid search.
Searching(csv, table, train, test, ran, mapes) ==
    /\ csvFile = csv
    /\ cv_mape = mapes
    /\ localFiles = [n \in LocalNames |->
                        CASE n = "creds.json" -> Some("connection_parameters")
                          [] n = "preprocessing_pipeline.joblib" -> Some(NewPipeline)
                          [] n = "model.joblib" -> Null]
    /\ stage = [n \in StageNames |->
                   CASE n = CSV_FILE -> Some(csv)
                     [] n = "preprocessing_pipeline.joblib.gz" -> Some(NewPipeline)
                     [] n = MODEL_IMPORT -> Null
                     [] n = UDF_FILE -> Null]
    /\ tables = [n \in TableNames |-> IF n = "scooby_clean" THEN Some(table) ELSE Null]
    /\ functions = {temporary_predict(3, 1, ColumnsWith(ran.train_df[1].columns, NORM_TEXT)
                                            \o ColumnsWith(ran.train_df[1].columns, OHE_TEXT))}
    /\ registrations = 0
    /\ nb = "modeling"
    /\ pc = "grid_search"
    /\ runs = 3
    /\ errors = {"reread"}
    /\ defined = AllDefined \ {"grid_search", "feature_cols", "batch_predict_imdb"}
    /\ df_read = <<>>
    /\ scooby_df = filter_imdb(table)
    /\ scooby_ml_df = select(filter_imdb(table), InputOrder)
    /\ scooby_train_df = train
    /\ scooby_test_df = test
    /\ preprocessing_pipeline = ran.pipeline
    /\ train_df = ran.train_df[1]
    /\ test_df = ran.test_df[1]
    /\ pipeline_calls = ran.calls
    /\ CAT_COLS = ColumnsWith(ran.train_df[1].columns, NORM_TEXT)
    /\ NUM_COLS = ColumnsWith(ran.train_df[1].columns, OHE_TEXT)
    /\ grid_search = Null
    /\ feature_cols = <<>>
    /\ test_df_w_preds = EmptyFrame
    /\ query = Null
    /\ procs = [p \in 1..MaxProcs |-> NoProcess]
    /\ last_call = Null

InitGrid ==
    \E r \in ScoreRows :
    \E csv \in {<<r, r>>} :
    \E table \in {Cleaned(csv)} :
    \E ml \in {select(filter_imdb(table), InputOrder)} :
    \E train \in {Part(ml, <<TRUE, FALSE>>, TRUE)} :
    \E test \in {Part(ml, <<TRUE, FALSE>>, FALSE)} :
    \E ran \in {run_pipeline(NewPipeline, train, test)} :
    \E mapes \in GridMapes :
       Searching(csv, table, train, test, ran, mapes)

NextGrid ==
    \/ ModelGridSearch
    \/ ModelPredict
    \/ ModelSave

SpecGrid == InitGrid /\ [][NextGrid]_vars

----------------------------------------------------------------------------
(* The three notebooks run once each, in the order of the tutorial.        *)

FirstIngest ==
    /\ runs = 0
    /\ StartIngest

ThenTransform ==
    /\ runs = 1
    /\ StartTransform

ThenModeling ==
    /\ runs = 2
    /\ StartModeling

NextSequence ==
    \/ FirstIngest
    \/ IngestSaveCreds
    \/ IngestPut
    \/ IngestRead
    \/ IngestCast
    \/ IngestFixUnique
    \/ IngestMultiValue
    \/ IngestFixMulti
    \/ IngestWrite
    \/ ThenTransform
    \/ ThenModeling
    \/ CreateSession
    \/ LoadTable
    \/ SelectFeatures
    \/ TransformPipeline
    \/ TransformPut
    \/ ModelReread
    \/ ModelLoadPipeline
    \/ ModelSplit
    \/ ModelCols
    \/ ModelRegressor
    \/ ModelGridSearch
    \/ ModelPredict
    \/ ModelSave
    \/ ModelFeatureCols
    \/ ModelRegister
    \/ ModelCallUdf
    \/ UdfBatch
    \/ ShowDone
    \/ ModelWrite
    \/ WriteDone
    \/ CloseSession

SpecSequence == Init /\ [][NextSequence]_vars

----------------------------------------------------------------------------
(* The cells of the ingest notebook that cast and clean, on one row whose  *)
(* cells are drawn from every short text.                                  *)

TextsOver(chars, n) == UNION {[1..k -> chars] : k \in 0..n}

IntTexts == TextsOver({"1", "2", "-", "x"}, MaxLen) \cup {NULLTEXT}
FloatTexts == TextsOver({"7", "0", ".", "-"}, MaxLen) \cup {NULLTEXT, <<"x">>}
BooleanTexts == TextsOver({"t", "N", "o", "1"}, MaxLen)
                \cup {NULLTEXT, <<"T","R","U","E">>, <<"F","A","L","S","E">>}
CatTexts == TextsOver({"a", "B", ",", "-", "|"}, MaxLen)
            \cup {NULLTEXT, <<"T","V"," ","S","e","r","i","e","s">>,
                  <<"S","e","a","-","M","o","n","s","t","e","r">>,
                  <<"M","a","l","e",","," ","F","e","m","a","l","e",",","M","a","l","e",",">>}
AmountTexts == {<<"1">>, <<"2">>, NULLTEXT}

Values(texts) == {Null} \cup {Some(t) : t \in texts}

DefaultRow ==
    [IMDB |-> Some(<<"7", ".", "5">>), ENGAGEMENT |-> Some(<<"1", "2">>),
     MONSTER_REAL |-> Some(<<"F","A","L","S","E">>),
     MONSTER_AMOUNT |-> Some(<<"1">>), CULPRIT_AMOUNT |-> Some(<<"2">>),
     FORMAT |-> Some(<<"T","V">>), MONSTER_TYPE |-> Some(<<"G","h","o","s","t">>),
     CULPRIT_GENDER |-> Some(<<"M","a","l","e">>)]

IngestRows ==
    {[DefaultRow EXCEPT ![c] = v] : c \in Range(int_array), v \in Values(IntTexts)}
    \cup {[DefaultRow EXCEPT ![c] = v] : c \in Range(float_array), v \in Values(FloatTexts)}
    \cup {[DefaultRow EXCEPT ![c] = v] : c \in Range(boolean_array), v \in Values(BooleanTexts)}
    \cup {[DefaultRow EXCEPT ![c] = v] : c \in Range(unique_cat_array), v \in Values(CatTexts)}
    \cup {[DefaultRow EXCEPT ![c] = v, !["MONSTER_AMOUNT"] = Some(a)] :
            c \in Range(monster_cat_array), v \in Values(CatTexts), a \in AmountTexts}
    \cup {[DefaultRow EXCEPT ![c] = v, !["CULPRIT_AMOUNT"] = Some(a)] :
            c \in Range(culprit_cat_array), v \in Values(CatTexts), a \in AmountTexts}

InitIngest ==
    /\ csvFile \in {<<r>> : r \in IngestRows}
    /\ cv_mape = EvenMape
    /\ localFiles = [n \in LocalNames |-> IF n = "creds.json" THEN Some("connection_parameters") ELSE Null]
    /\ stage = [n \in StageNames |-> IF n = CSV_FILE THEN Some(csvFile) ELSE Null]
    /\ tables = [n \in TableNames |-> Null]
    /\ functions = {}
    /\ registrations = 0
    /\ nb = "ingest"
    /\ pc = "cast"
    /\ runs = 1
    /\ errors = {}
    /\ defined = {"session", "scooby_df"}
    /\ CAT_COLS = <<>>
    /\ NUM_COLS = <<>>
    /\ df_read = csvFile
    /\ scooby_df = csvFile
    /\ scooby_ml_df = <<>>
    /\ scooby_train_df = <<>>
    /\ scooby_test_df = <<>>
    /\ preprocessing_pipeline = Null
    /\ train_df = EmptyFrame
    /\ test_df = EmptyFrame
    /\ pipeline_calls = <<>>
    /\ grid_search = Null
    /\ feature_cols = <<>>
    /\ test_df_w_preds = EmptyFrame
    /\ query = Null
    /\ procs = [p \in 1..MaxProcs |-> NoProcess]
    /\ last_call = Null

NextIngest ==
    \/ IngestCast
    \/ IngestFixUnique
    \/ IngestMultiValue
    \/ IngestFixMulti
    \/ IngestWrite

SpecIngest == InitIngest /\ [][NextIngest]_vars

----------------------------------------------------------------------------
(* Claims about the cast and the cleaning (SpecIngest).                    *)

ColumnType(col) ==
    IF col \in Range(int_array) THEN "IntegerType"
    ELSE IF col \in Range(float_array) THEN "FloatType"
    ELSE "BooleanType"

CastColumnSet == Range(int_array) \cup Range(float_array) \cup Range(boolean_array)

AfterCast == nb = "ingest" /\ pc \in {"fix_unique", "multi_value", "fix_multi", "write", "close"}

\* C4: after the cast cell the dataframe has the rows it had when read, no
\* cell raised, and every cell of int_array, float_array and boolean_array
\* whose text does not convert to the column's type holds NULL.
C4_TryCastFillsNull ==
    AfterCast =>
        /\ errors = {}
        /\ Len(scooby_df) = Len(df_read)
        /\ \A i \in 1..Len(df_read) : \A col \in CastColumnSet :
              (df_read[i][col] # Null /\ ~Convertible(df_read[i][col][1], ColumnType(col)))
                  => scooby_df[i][col] = Null

C4_Witness ==
    /\ At("ingest", "fix_unique")
    /\ \E col \in CastColumnSet :
          /\ df_read[1][col] = Some(<<"x">>)
          /\ scooby_df[1][col] = Null

StandardChars == Range(UpperCase) \cup Range(Digits) \cup {"_"}

\* The text with every character outside [a-zA-Z0-9] turned into '_', an
\* underscore that follows another one dropped, and the letters upper-cased.
Standardised(t) ==
    LET mapped == [i \in 1..Len(t) |-> IF t[i] \in AlnumClass THEN UpperChar(t[i]) ELSE "_"]
        kept == {i \in 1..Len(t) : mapped[i] # "_" \/ i = 1 \/ mapped[i - 1] # "_"}
        nth(j) == CHOOSE i \in kept : Cardinality({k \in kept : k <= i}) = j
    IN [j \in 1..Cardinality(kept) |-> mapped[nth(j)]]

\* The value the notebook hands to fix_values for a column of row i.
GivenToFixValues(i, col) ==
    IF col \in Range(unique_cat_array) THEN df_read[i][col]
    ELSE clean_multi_values(cast_types(df_read))[i][col]

\* C6: every categorical value written to scooby_clean is NULL when the
\* value given to fix_values was NULL, and otherwise is that value with each
\* maximal run of characters outside [a-zA-Z0-9] replaced by one underscore,
\* upper-cased: it holds only A-Z, 0-9 and underscore.
C6_CategoriesStandardised ==
    (At("ingest", "close") /\ tables["scooby_clean"] # Null) =>
        LET written == tables["scooby_clean"][1]
        IN \A i \in 1..Len(written) : \A col \in Range(cat_array) :
              LET given == GivenToFixValues(i, col)
                  out == written[i][col]
              IN IF given = Null THEN out = Null
                 ELSE /\ out # Null
                      /\ AllIn(out[1], StandardChars)
                      /\ out[1] = Standardised(given[1])

C6_Witness ==
    /\ At("ingest", "close")
    /\ df_read[1]["FORMAT"] = Some(<<"a", "-", "|">>)
    /\ tables["scooby_clean"][1][1]["FORMAT"] = Some(<<"A", "_">>)
    /\ tables["scooby_clean"][1][1]["MONSTER_TYPE"] = Some(<<"G","H","O","S","T">>)

AmountOf(col) == IF col \in Range(monster_cat_array) THEN "MONSTER_AMOUNT" ELSE "CULPRIT_AMOUNT"

MultiColumnSet == Range(monster_cat_array) \cup Range(culprit_cat_array)

\* The pieces of a text between commas, empty ones included.
Pieces(t) ==
    LET commas == {i \in 1..Len(t) : t[i] = ","}
        starts == {1} \cup {i + 1 : i \in commas}
    IN {SubSeq(t, b, (CHOOSE e \in (commas \cup {Len(t) + 1}) :
                         e >= b /\ \A k \in commas : k < b \/ k >= e) - 1) : b \in starts}

\* One piece as the cleaning leaves it: upper case, the characters outside
\* the pattern's class deleted.
CleanedPiece(p) == SelectSeq(UpperText(p), LAMBDA c : c \in AlnumPipeCommaClass)

CleanedTokens(t) == {CleanedPiece(p) : p \in Pieces(t)} \ {<<>>}

Ascending(q) == \A i \in 1..(Len(q) - 1) : TextLess(q[i], q[i + 1])

\* The only arrangement of a set of texts in strictly ascending order.
InOrder(S) ==
    CHOOSE q \in [1..Cardinality(S) -> S] : Range(q) = S /\ Ascending(q)

\* C7: right after the multi-value loops, a monster (culprit) column of a row
\* whose amount is greater than 1 and whose raw value is not the text 'NULL'
\* holds the distinct cleaned tokens of the raw value, each once, in
\* ascending order, joined by commas.
C7_UniqueArrayDedupesAndSorts ==
    At("ingest", "fix_multi") =>
        \A i \in 1..Len(df_read) : \A col \in MultiColumnSet :
            LET raw == df_read[i][col]
                amount == try_cast(df_read[i][AmountOf(col)], "IntegerType")
            IN (amount # Null /\ amount[1] > 1 /\ raw # Null /\ raw[1] # NULLTEXT)
                   => scooby_df[i][col] = Some(Join(InOrder(CleanedTokens(raw[1])), <<",">>))

C7_Witness ==
    /\ At("ingest", "fix_multi")
    /\ df_read[1]["CULPRIT_AMOUNT"] = Some(<<"2">>)
    /\ df_read[1]["CULPRIT_GENDER"] =
          Some(<<"M","a","l","e",","," ","F","e","m","a","l","e",",","M","a","l","e",",">>)
    /\ scooby_df[1]["CULPRIT_GENDER"] = Some(<<"F","E","M","A","L","E",",","M","A","L","E">>)

\* C8: right after the multi-value loops (before fix_values) every non-NULL
\* value of the monster and culprit columns holds only A-Z, 0-9 and comma.
C8_OnlyUpperDigitsComma ==
    At("ingest", "fix_multi") =>
        \A i \in 1..Len(scooby_df) : \A col \in MultiColumnSet :
            scooby_df[i][col] # Null
                => AllIn(scooby_df[i][col][1], Range(UpperCase) \cup Range(Digits) \cup {","})

SingleValueChars == AlnumClass \cup {" ", "-"}

LettersAndDigits(t) == UpperText(SelectSeq(t, LAMBDA c : c \in AlnumClass))

\* C9 as stated: a monster or culprit value made of letters, digits, spaces
\* and hyphens is written to scooby_clean as its upper-cased letters and
\* digits.
C9_AsStated ==
    (At("ingest", "close") /\ tables["scooby_clean"] # Null) =>
        \A i \in 1..Len(df_read) : \A col \in MultiColumnSet :
            (df_read[i][col] # Null /\ AllIn(df_read[i][col][1], SingleValueChars))
                => tables["scooby_clean"][1][i][col] = Some(LettersAndDigits(df_read[i][col][1]))

\* The text 'NULL' in a row whose amount is greater than 1.
NullTextOfMany(i, col) ==
    LET amount == try_cast(df_read[i][AmountOf(col)], "IntegerType")
    IN amount # Null /\ amount[1] > 1 /\ df_read[i][col] = Some(NULLTEXT)

\* C9 amended: ... as its upper-cased letters and digits, with no underscore,
\* except the text 'NULL' in a row whose amount is greater than 1, which is
\* written as SQL NULL.
C9_HyphenAndSpaceRemoved ==
    (At("ingest", "close") /\ tables["scooby_clean"] # Null) =>
        \A i \in 1..Len(df_read) : \A col \in MultiColumnSet :
            (df_read[i][col] # Null /\ AllIn(df_read[i][col][1], SingleValueChars))
                => tables["scooby_clean"][1][i][col] =
                      IF NullTextOfMany(i, col) THEN Null
                      ELSE Some(LettersAndDigits(df_read[i][col][1]))

C9_Witness ==
    /\ At("ingest", "close")
    /\ df_read[1]["MONSTER_TYPE"] = Some(<<"S","e","a","-","M","o","n","s","t","e","r">>)
    /\ df_read[1]["MONSTER_AMOUNT"] = Some(<<"2">>)
    /\ tables["scooby_clean"][1][1]["MONSTER_TYPE"] = Some(<<"S","E","A","M","O","N","S","T","E","R">>)

----------------------------------------------------------------------------
(* Claims about the workflow (Spec).                                       *)

Fits == {i \in 1..Len(pipeline_calls) : pipeline_calls[i].op = "fit"}

\* C1: in the modeling notebook the pipeline is fitted once, on the training
\* split and before any transform; the test split is only given to transform;
\* every test row is transformed with the categories, minimum and maximum
\* learned from the training split.
C1_FittedOnceOnTrain ==
    nb = "modeling" =>
        /\ Cardinality(Fits) <= 1
        /\ "train_df" \in defined => Cardinality(Fits) = 1
        /\ \A i \in Fits :
              /\ pipeline_calls[i].on = "scooby_train_df"
              /\ pipeline_calls[i].df = scooby_train_df
        /\ \A j \in 1..Len(pipeline_calls) :
              /\ pipeline_calls[j].op = "transform" => \E i \in Fits : i < j
              /\ pipeline_calls[j].on = "scooby_test_df" => pipeline_calls[j].op = "transform"
        /\ "test_df" \in defined =>
              /\ preprocessing_pipeline.fitted = Some(Learned(scooby_train_df))
              /\ Len(test_df.rows) = Len(scooby_test_df)
              /\ \A i \in 1..Len(scooby_test_df) :
                    test_df.rows[i] = TransformedRow(Learned(scooby_train_df), scooby_test_df[i])

\* A test split that would teach the pipeline something else than the
\* training split has been transformed.
C1_Witness ==
    /\ nb = "modeling"
    /\ "test_df" \in defined
    /\ Len(scooby_test_df) > 0
    /\ Learned(scooby_test_df) # Learned(scooby_train_df)

\* C2: every call of batch_predict_imdb returns one prediction per row of
\* its batch, in the order of the rows: the prediction of the model loaded
\* from the import for that row, under the names CAT_COLS + NUM_COLS.
C2_OnePredictionPerRow ==
    last_call # Null =>
        LET call == last_call[1]
            model == call.import_dir[1][MODEL_IMPORT][1]
        IN /\ query # Null => call.names = CAT_COLS \o NUM_COLS
           /\ CanPredict(model, call.names)
           /\ call.result # Null
           /\ Len(call.result[1]) = Len(call.batch)
           /\ \A i \in 1..Len(call.batch) :
                 call.result[1][i] = PredictRow(model, call.batch[i])

\* A batch of two rows whose predictions differ.
C2_Witness ==
    /\ last_call # Null
    /\ last_call[1].result # Null
    /\ Len(last_call[1].batch) >= 2
    /\ last_call[1].result[1][1] # last_call[1].result[1][2]

\* C3: a process opens and deserializes the model file at most once, and
\* every call of load_model in it returns the object the first call returned.
C3_ModelLoadedOncePerProcess ==
    \A p \in 1..MaxProcs :
        /\ procs[p].opened <= 1
        /\ procs[p].first # Null => procs[p].last = procs[p].first

\* A process that has served two batches.
C3_Witness == \E p \in 1..MaxProcs : procs[p].calls >= 2

Count(df, r) == Cardinality({i \in 1..Len(df) : df[i] = r})

NoNullIMDB(df) == \A i \in 1..Len(df) : df[i]["IMDB"] # Null

\* C5: in the transformations and modeling notebooks, once scooby_df is
\* loaded and filtered no row of it has a NULL IMDB, nor has a row of
\* scooby_ml_df or of the two splits, and every row of scooby_clean with an
\* IMDB is in scooby_df as often as in the table.
C5_NullIMDBFilteredOut ==
    (nb \in {"transform", "modeling"} /\ "scooby_df" \in defined) =>
        /\ NoNullIMDB(scooby_df)
        /\ NoNullIMDB(scooby_ml_df)
        /\ NoNullIMDB(scooby_train_df)
        /\ NoNullIMDB(scooby_test_df)
        /\ \A i \in 1..Len(tables["scooby_clean"][1]) :
              LET r == tables["scooby_clean"][1][i]
              IN r["IMDB"] # Null =>
                    Count(scooby_df, r) = Count(tables["scooby_clean"][1], r)

\* The table has a row without IMDB and a row with one, and the modeling
\* notebook has split what the filter left.
C5_Witness ==
    /\ nb = "modeling"
    /\ "scooby_train_df" \in defined
    /\ Len(scooby_df) > 0
    /\ \E i \in 1..Len(tables["scooby_clean"][1]) :
          tables["scooby_clean"][1][i]["IMDB"] = Null

\* C10: once the registration cell has run there is exactly one function
\* named batch_predict_imdb, it is permanent, and it is the one the latest
\* registration created; a temporary function lasts only as long as the
\* session that made it.
C10_OnePermanentFunction ==
    /\ registrations > 0 =>
          /\ Cardinality(Registered) = 1
          /\ \A f \in Registered : f.permanent /\ f.serial = registrations
    /\ \A f \in functions : ~f.permanent => (nb # "none" /\ f.session = runs)

\* The registration cell has run twice and the session that ran it is closed.
C10_Witness ==
    /\ registrations >= 2
    /\ nb = "none"
    /\ \E f \in Registered : f.session = runs

----------------------------------------------------------------------------
(* Claims about runs over tables written before (SpecRerun).               *)

\* C11: once a run of the ingest notebook has written scooby_clean, the
\* table holds exactly the rows that run read and cleaned; once a run of the
\* modeling notebook has written scooby_w_predictions, the table holds
\* exactly that run's test_df with the prediction of that run's model for
\* each row.  Nothing an earlier run wrote is left in either table.
C11_TablesOverwritten ==
    /\ (At("ingest", "close") /\ "scooby_df" \in defined) =>
          /\ tables["scooby_clean"] = Some(scooby_df)
          /\ tables["scooby_clean"] = Some(Cleaned(df_read))
    /\ (At("modeling", "close") /\ "write" \notin errors) =>
          tables["scooby_w_predictions"] = Some(Scored(test_df, grid_search[1]))

\* The ingest notebook has written rows the table did not hold before.
C11_Witness ==
    /\ At("ingest", "close")
    /\ "scooby_df" \in defined
    /\ OtherFiles # {}
    /\ tables["scooby_clean"] = Some(Cleaned(StageRows))

\* The modeling notebook has written the predictions for its test split
\* over those of an earlier run.
C11_WitnessPredictions ==
    /\ At("modeling", "close")
    /\ "write" \notin errors
    /\ registrations >= 2
    /\ Len(tables["scooby_w_predictions"][1].rows) >= 1

----------------------------------------------------------------------------
(* Claims about the grid search (SpecGrid).                                *)

\* The candidates whose mean MAPE no candidate of the grid undercuts.
LowestMape == {c \in 1..Len(ParamGrid) : \A d \in 1..Len(ParamGrid) : cv_mape[c] <= cv_mape[d]}

\* C12: the grid has 25 different candidates, the n_estimators of
\* 100..500 with the learning rates of 0.1..0.5; the estimator the fitted
\* search predicts with is a candidate of the lowest mean MAPE, which is the
\* greatest mean score, and it is the estimator saved to model.joblib and
\* put on the stage.
C12_BestEstimatorHasLowestMape ==
    /\ Len(ParamGrid) = 25
    /\ \A c, d \in 1..Len(ParamGrid) : ParamGrid[c] = ParamGrid[d] => c = d
    /\ grid_search # Null =>
          /\ grid_search[1].best_index_ \in LowestMape
          /\ grid_search[1].best_params_ = ParamGrid[grid_search[1].best_index_]
          /\ \A d \in 1..Len(ParamGrid) :
                grid_search[1].mean_test_score[d]
                    <= grid_search[1].mean_test_score[grid_search[1].best_index_]
    /\ (At("modeling", "save_model") /\ "predict" \notin errors) =>
          temporary_predict(runs, 2, grid_search[1].input_cols) \in functions
    /\ (At("modeling", "feature_cols") /\ "save_model" \notin errors) =>
          /\ localFiles["model.joblib"] = grid_search
          /\ stage[MODEL_IMPORT] = grid_search

\* The saved search has chosen a candidate that is not the first of the
\* grid, and another candidate is worse.
C12_Witness ==
    /\ At("modeling", "feature_cols")
    /\ stage[MODEL_IMPORT] # Null
    /\ stage[MODEL_IMPORT][1].best_index_ > 1
    /\ LowestMape # 1..Len(ParamGrid)

----------------------------------------------------------------------------
(* Claims about the split (Spec).                                          *)

\* Every row of scooby_ml_df is in exactly one of the two splits.
SplitIsPartition ==
    (nb = "modeling" /\ "scooby_train_df" \in defined) =>
        /\ Len(scooby_train_df) + Len(scooby_test_df) = Len(scooby_ml_df)
        /\ \A i \in 1..Len(scooby_ml_df) :
              Count(scooby_train_df, scooby_ml_df[i]) + Count(scooby_test_df, scooby_ml_df[i])
                  = Count(scooby_ml_df, scooby_ml_df[i])

----------------------------------------------------------------------------
(* Claims about the loaded pipeline (Spec).                                *)

\* C14: the pipeline the modeling notebook loads has the two steps the
\* transformations notebook built, OHE and then MMS with clip=True; the four
\* lists of six names are the same in the two notebooks, so the steps read
\* and write the columns the modeling notebook names; the file is loaded as
\* it was dumped, before any fit; and train_df and test_df get the same
\* columns.
C14_LoadedPipelineIsTheOneBuilt ==
    /\ \A k \in DOMAIN ModelingLists :
          /\ Len(ModelingLists[k]) = 6
          /\ ModelingLists[k] = TransformationsLists[k]
    /\ (nb = "modeling" /\ "preprocessing_pipeline" \in defined) =>
          LET steps == preprocessing_pipeline.steps
          IN /\ localFiles["preprocessing_pipeline.joblib"] # Null
             /\ localFiles["preprocessing_pipeline.joblib"][1].steps = steps
             /\ localFiles["preprocessing_pipeline.joblib"][1].fitted = Null
             /\ Len(steps) = 2
             /\ steps[1].name = "OHE"
             /\ steps[1].input_cols = CATEGORICAL_COLUMNS
             /\ steps[1].input_cols = Modelled(ModelingLists.CATEGORICAL_COLUMNS)
             /\ steps[1].output_cols =
                   [i \in 1..Len(CATEGORICAL_COLUMNS) |-> ColumnText(CATEGORICAL_COLUMNS[i]) \o OHE_TEXT]
             /\ steps[2].name = "MMS"
             /\ steps[2].clip
             /\ steps[2].input_cols = NUMERICAL_COLUMNS
             /\ steps[2].input_cols = Modelled(ModelingLists.NUMERICAL_COLUMNS)
             /\ steps[2].output_cols =
                   [i \in 1..Len(NUMERICAL_COLUMNS) |-> ColumnText(NUMERICAL_COLUMNS[i]) \o NORM_TEXT]
             /\ "test_df" \in defined => test_df.columns = train_df.columns

\* The modeling notebook has loaded the pipeline and run both splits
\* through it.
C14_Witness ==
    /\ nb = "modeling"
    /\ "preprocessing_pipeline" \in defined
    /\ "test_df" \in defined
    /\ Len(test_df.rows) > 0

----------------------------------------------------------------------------
(* Claims about the regressor's columns (Spec).                            *)

\* The columns of train_df that stand for the missing value of a
\* categorical column.
NoneColumns ==
    {CategoryName(c, Null) :
        c \in {d \in Range(CATEGORICAL_COLUMNS) :
                 Null \in Range(Learned(scooby_train_df).categories[d])}}

\* C15: once the modeling notebook has set CAT_COLS and NUM_COLS, no column
\* of train_df that stands for a missing category value is in
\* CAT_COLS + NUM_COLS, and every other column of train_df whose name
\* contains '_NORM' or '_OHE' is in it.
C15_NoneColumnsExcluded ==
    (nb = "modeling" /\ "CAT_COLS" \in defined) =>
        /\ NoneColumns \subseteq Range(train_df.columns)
        /\ \A k \in NoneColumns : k \notin Range(CAT_COLS \o NUM_COLS)
        /\ \A k \in Range(train_df.columns) \ NoneColumns :
              (Contains(k, NORM_TEXT) \/ Contains(k, OHE_TEXT))
                  => k \in Range(CAT_COLS \o NUM_COLS)

\* The training split has a row without a value in a categorical column.
C15_Witness ==
    /\ nb = "modeling"
    /\ "CAT_COLS" \in defined
    /\ NoneColumns # {}
    /\ Len(CAT_COLS \o NUM_COLS) >= 2

----------------------------------------------------------------------------
(* Claims about the call of the function (Spec).                           *)

\* C16: feature_cols is CAT_COLS + NUM_COLS, the input_cols of the fitted
\* grid search; the function a query calls declares as many input types as
\* the call has arguments, every row handed to it has that many values, and
\* the names the function gives to the columns of a batch are feature_cols,
\* in that order.
C16_CalledWithTrainedColumns ==
    /\ (nb = "modeling" /\ "feature_cols" \in defined) =>
          /\ feature_cols = CAT_COLS \o NUM_COLS
          /\ "grid_search" \in defined
          /\ feature_cols = grid_search[1].input_cols
    /\ query # Null =>
          /\ query[1].function.arity = Len(feature_cols)
          /\ query[1].function.names = feature_cols
          /\ \A i \in 1..Len(query[1].todo) : Len(query[1].todo[i]) = Len(feature_cols)
          /\ last_call # Null =>
                /\ last_call[1].names = feature_cols
                /\ \A i \in 1..Len(last_call[1].batch) :
                      Len(last_call[1].batch[i]) = Len(last_call[1].names)

\* A call of the function with two columns or more has returned.
C16_Witness ==
    /\ query # Null
    /\ last_call # Null
    /\ last_call[1].result # Null
    /\ Len(last_call[1].batch) >= 1
    /\ Len(feature_cols) >= 2

----------------------------------------------------------------------------
(* Claims about what the ingest notebook reads (Spec).                     *)

\* C17: whatever notebooks have run before, every row of the dataframe the
\* ingest notebook reads from @SCOOBY_ASSETS is a row of the staged file
\* scoobydoo_20211019.csv.
C17_ReadsOnlyTheCsvFile ==
    (nb = "ingest" /\ "scooby_df" \in defined) =>
        /\ stage[CSV_FILE] # Null
        /\ \A i \in 1..Len(df_read) : df_read[i] \in Range(stage[CSV_FILE][1])

----------------------------------------------------------------------------
(* Claims about the notebooks run in sequence (SpecSequence).              *)

\* The cells that read an artefact another notebook writes.
ReadingCells == {"session", "load", "load_pipeline"}

\* C18: when the notebooks are run once each in the order ingest,
\* transformations, modeling, no cell that reads creds.json, scooby_clean or
\* preprocessing_pipeline.joblib ever raises: while the second or third
\* notebook runs, creds.json and scooby_clean exist, written by the first,
\* and while the third runs, the pipeline file exists, written by the
\* second.
C18_ArtefactsExistWhenRead ==
    /\ errors \cap ReadingCells = {}
    /\ nb \in {"transform", "modeling"} =>
          /\ localFiles["creds.json"] # Null
          /\ tables["scooby_clean"] # Null
    /\ nb = "modeling" =>
          /\ localFiles["preprocessing_pipeline.joblib"] = Some(NewPipeline)
    /\ (nb \in {"transform", "modeling"} /\ pc \notin {"session", "load"}) =>
          {"session", "scooby_df"} \subseteq defined
    /\ (nb = "modeling" /\ pc \notin {"session", "load", "select", "reread", "load_pipeline"}) =>
          "preprocessing_pipeline" \in defined

\* The third notebook has read all three artefacts and has gone on to its
\* last cell.
C18_Witness ==
    /\ At("modeling", "close")
    /\ runs = 3
    /\ {"session", "scooby_df", "preprocessing_pipeline"} \subseteq defined
    /\ tables["scooby_w_predictions"] # Null

\* C19: in a fresh kernel, with the files and the table of the two other
\* notebooks in place, no cell of the modeling notebook raises: every
\* variable a cell reads has been defined by a cell before it.
C19_ModelingRunsToCompletion ==
    nb = "modeling" => errors = {}

====
